---- MODULE Spec2Model ----
(***************************************************************************)
(* Inventory ledger of the inventory-management backend: the lot and       *)
(* transaction collections, and the request handlers createLot, updateLot, *)
(* deleteLot (lot.controller.ts) and createSale (transaction.controller.ts)*)
(* run by concurrent requests.  Every handler is split at its awaited      *)
(* database operations, the only points where requests interleave.         *)
(* Money is counted in whole units (integers).                             *)
(***************************************************************************)
EXTENDS Integers, Sequences, FiniteSets, TLC

VARIABLES
  lots,       \* committed lots collection: lot id -> lot document
  nextLotId,  \* next fresh _id of the lots collection
  txns,       \* committed transactions collection, in insertion order
  margins,    \* history: margin realised by each committed transaction
  pc,         \* per request slot: the awaited operation it stands before
  req,        \* per request slot: the current or last request: user, id, body
  work,       \* per request slot: the mongoose document / locals held in memory
  resp,       \* per request slot: the last response sent
  stale,      \* per request slot: its transaction snapshot of the lot is outdated
  calls,      \* number of requests received, generate-number requests aside
  now,        \* the clock read by Date.now, in half days
  session     \* per request slot: the session calls of its createSale, in order;
              \* empty once the slot serves another handler

vars == <<lots, nextLotId, txns, margins, pc, req, work, resp, stale, calls, now, session>>

\* ------------------------------------------------------------------ bounds
NumProcs == 2
MaxCalls == 3

Procs == 1 .. NumProcs

\* ------------------------------------------------------- principals, inputs
\* req.user as set by authenticateToken: userId, tenantId, role.
Admin == [userId |-> 1, tenantId |-> "A", role |-> "admin"]
Staff == [userId |-> 2, tenantId |-> "A", role |-> "staff"]
Other == [userId |-> 3, tenantId |-> "B", role |-> "staff"]
Users == {Admin, Staff, Other}

\* A string that mongoose.Types.ObjectId.isValid rejects.
BadId == 0

IsValidObjectId(id) == id # BadId

SizeIn(s, q, p, c) ==
  [size |-> s, quantity |-> q, purchaseCostPerPiece |-> p, sellCostPerPiece |-> c]

Line(c, s, q, price) ==
  [color |-> c, size |-> s, quantity |-> q, sellPricePerPiece |-> price]

\* ------------------------------------------------------------ zod schemas
sizeSchema(s) ==
  /\ s.size # ""
  /\ s.quantity >= 1
  /\ s.purchaseCostPerPiece >= 0
  /\ s.sellCostPerPiece >= 0

colorSchema(c) ==
  /\ c.color # ""
  /\ Len(c.sizes) >= 1
  /\ \A j \in 1 .. Len(c.sizes) : sizeSchema(c.sizes[j])

createLotSchema(body) ==
  /\ Len(body.lotNumber) >= 1
  /\ Len(body.items) >= 1
  /\ \A i \in 1 .. Len(body.items) : colorSchema(body.items[i])

soldItemSchema(l) ==
  /\ l.color # ""
  /\ l.size # ""
  /\ l.quantity >= 1
  /\ l.sellPricePerPiece >= 0

createSaleSchema(body) ==
  /\ Len(body.soldItems) >= 1
  /\ \A i \in 1 .. Len(body.soldItems) : soldItemSchema(body.soldItems[i])

\* ---------------------------------------------------------------- helpers
\* Array.prototype.find: index of the first element satisfying the test, 0 if none.
FindColor(items, color) ==
  LET hits == { i \in 1 .. Len(items) : items[i].color = color }
  IN  IF hits = {} THEN 0 ELSE CHOOSE i \in hits : \A k \in hits : i <= k

FindSize(sizes, size) ==
  LET hits == { j \in 1 .. Len(sizes) : sizes[j].size = size }
  IN  IF hits = {} THEN 0 ELSE CHOOSE j \in hits : \A k \in hits : j <= k

RECURSIVE SumSizes(_)
SumSizes(sizes) ==
  IF sizes = << >> THEN 0
  ELSE Head(sizes).quantity * Head(sizes).purchaseCostPerPiece + SumSizes(Tail(sizes))

\* totalInvestment accumulated by the nested map of createLot / updateLot.
RECURSIVE Investment(_)
Investment(items) ==
  IF items = << >> THEN 0
  ELSE SumSizes(Head(items).sizes) + Investment(Tail(items))

\* items prepared by createLot / updateLot: remainingQuantity seeded to quantity.
SeedItems(items) ==
  [ i \in 1 .. Len(items) |->
      [ color |-> items[i].color,
        sizes |-> [ j \in 1 .. Len(items[i].sizes) |->
                      [ size |-> items[i].sizes[j].size,
                        quantity |-> items[i].sizes[j].quantity,
                        remainingQuantity |-> items[i].sizes[j].quantity,
                        purchaseCostPerPiece |-> items[i].sizes[j].purchaseCostPerPiece,
                        sellCostPerPiece |-> items[i].sizes[j].sellCostPerPiece ] ] ] ]

NoDoc == << >>
NoReq == << >>
NoResp == [op |-> "none", code |-> "NONE", detail |-> << >>]
Resp(op, code, detail) == [op |-> op, code |-> code, detail |-> detail]

\* Mutant of the lot lookup: Lot.findById(id), without the tenant filter.
FindLot_anyTenant(id, tenantId) ==
  IF id \in DOMAIN lots THEN lots[id] ELSE NoDoc

\* Lot.findOne({ _id, tenantId }) on the committed collection.
FindLot(id, tenantId) ==
  IF id \in DOMAIN lots /\ lots[id].tenantId = tenantId THEN lots[id] ELSE NoDoc

\* Lot.findOne({ tenantId, lotNumber }) / Lot.findOne({ ..., _id: { $ne: id } }).
LotNumberTaken(tenantId, lotNumber, exceptId) ==
  \E k \in DOMAIN lots :
    /\ k # exceptId
    /\ lots[k].tenantId = tenantId
    /\ lots[k].lotNumber = lotNumber

\* A multi-document transaction holds the write lock of a lot it has updated
\* until it commits or aborts; writes outside the transaction wait for it.
WriteLocked(id) ==
  \E q \in Procs : pc[q] \in {"saleSaved", "saleInserted"} /\ req[q].id = id

\* A committed write to lot id makes the snapshot of every open transaction
\* that has read this lot out of date.
MarkStale(id) ==
  [ q \in Procs |->
      IF pc[q] = "saleRead" /\ req[q].id = id THEN TRUE ELSE stale[q] ]

Req(u, id, body) == [user |-> u, id |-> id, body |-> body]

\* A request arrives at an idle slot; authenticateToken has set req.user.
Begin(p, r) ==
  /\ pc[p] = "idle"
  /\ calls < MaxCalls
  /\ calls' = calls + 1
  /\ req' = [req EXCEPT ![p] = r]

\* The handler sends its response and returns.
Finish(p, r) ==
  /\ pc' = [pc EXCEPT ![p] = "idle"]
  /\ resp' = [resp EXCEPT ![p] = r]
  /\ work' = [work EXCEPT ![p] = NoDoc]

\* The handler reaches its next awaited operation.
Goto(p, label, w) ==
  /\ pc' = [pc EXCEPT ![p] = label]
  /\ resp' = [resp EXCEPT ![p] = NoResp]
  /\ work' = [work EXCEPT ![p] = w]

\* The handler in slot p opens no session.
NoSession(p) == session' = [session EXCEPT ![p] = << >>]

\* mongoose.startSession() and session.startTransaction() (lines 23-24).
SessionOpen == <<"startTransaction">>

\* An early return: abortTransaction before the response, endSession in the
\* finally block.
SessionAborted == <<"startTransaction", "abortTransaction", "endSession">>

\* The catch block after a failed save, insert or commit: abortTransaction is
\* accepted, then endSession.
AbortCalls(p, log) ==
  (IF pc[p] = "saleInserted" THEN Append(log, "commitTransaction failed") ELSE log)
    \o <<"abortTransaction", "endSession">>

\* ------------------------------------------------------------------- Init
Init ==
  /\ now = 0
  /\ session = [p \in Procs |-> << >>]
  /\ lots = << >>
  /\ nextLotId = 1
  /\ txns = << >>
  /\ margins = << >>
  /\ pc = [p \in Procs |-> "idle"]
  /\ req = [p \in Procs |-> NoReq]
  /\ work = [p \in Procs |-> NoDoc]
  /\ resp = [p \in Procs |-> NoResp]
  /\ stale = [p \in Procs |-> FALSE]
  /\ calls = 0

\* ---------------------------------------------------------------- createLot
\* Mutant of the creation: remainingQuantity is left at 0.
NewLot_unseeded(u, body) ==
  [ tenantId |-> u.tenantId,
    lotNumber |-> body.lotNumber,
    items |-> [ i \in 1 .. Len(body.items) |->
                  [ color |-> body.items[i].color,
                    sizes |-> [ j \in 1 .. Len(body.items[i].sizes) |->
                                  [ SeedItems(body.items)[i].sizes[j]
                                      EXCEPT !.remainingQuantity = 0 ] ] ] ],
    totalInvestment |-> Investment(body.items),
    totalRevenue |-> 0,
    totalProfit |-> 0,
    createdBy |-> u.userId,
    createdAt |-> now,
    v |-> 0 ]

\* The document passed to Lot.create (lines 55-91).
NewLot(u, body) ==
  [ tenantId |-> u.tenantId,
    lotNumber |-> body.lotNumber,
    items |-> SeedItems(body.items),
    totalInvestment |-> Investment(body.items),
    totalRevenue |-> 0,
    totalProfit |-> 0,
    createdBy |-> u.userId,
    createdAt |-> now,
    v |-> 0 ]

\* createLotSchema.parse and the duplicate check Lot.findOne({tenantId, lotNumber}).
CreateLotCheck(p, u, body) ==
  /\ Begin(p, Req(u, BadId, body))
  /\ IF ~ createLotSchema(body)
       THEN Finish(p, Resp("createLot", "VALIDATION_ERROR", << >>))
     ELSE IF LotNumberTaken(u.tenantId, body.lotNumber, BadId)
       THEN Finish(p, Resp("createLot", "VALIDATION_ERROR", << >>))
     ELSE Goto(p, "createInsert", NoDoc)
  /\ NoSession(p)
  /\ UNCHANGED <<lots, nextLotId, now, txns, margins, stale>>

\* Mutant of the storage: the index on (lotNumber, tenantId) is not unique.
CreateLotInsert_noIndex(p) ==
  /\ pc[p] = "createInsert"
  /\ lots' = [ k \in DOMAIN lots \cup {nextLotId} |->
                 IF k = nextLotId THEN NewLot(req[p].user, req[p].body)
                 ELSE lots[k] ]
  /\ nextLotId' = nextLotId + 1
  /\ Finish(p, Resp("createLot", "CREATED", <<nextLotId>>))
  /\ UNCHANGED <<now, txns, margins, req, stale, session, calls>>

\* Lot.create: the unique index (lotNumber, tenantId) rejects a duplicate,
\* which the catch block reports as SERVER_ERROR.
CreateLotInsert(p) ==
  /\ pc[p] = "createInsert"
  /\ IF LotNumberTaken(req[p].user.tenantId, req[p].body.lotNumber, BadId)
       THEN /\ Finish(p, Resp("createLot", "SERVER_ERROR", << >>))
            /\ UNCHANGED <<lots, nextLotId>>
     ELSE /\ lots' = [ k \in DOMAIN lots \cup {nextLotId} |->
                         IF k = nextLotId THEN NewLot(req[p].user, req[p].body)
                         ELSE lots[k] ]
          /\ nextLotId' = nextLotId + 1
          /\ Finish(p, Resp("createLot", "CREATED", <<nextLotId>>))
  /\ UNCHANGED <<now, txns, margins, req, stale, session, calls>>

\* ---------------------------------------------------------------- createSale
\* Mutant of the stock check: compares with the original quantity.
InsufficientStock_original(sizeItem, soldItem) ==
  sizeItem.quantity < soldItem.quantity

\* The stock check of line 101.
InsufficientStock(sizeItem, soldItem) ==
  sizeItem.remainingQuantity < soldItem.quantity

\* Mutant of the loop: a line is checked against the remaining quantity the
\* lot was read with, whatever the lines before it took.
SizeItem_asRead(acc, i, j) ==
  LET cur == acc.doc.items[i].sizes[j]
      Taken(k) == IF /\ acc.processedItems[k].color = acc.doc.items[i].color
                     /\ acc.processedItems[k].size = cur.size
                    THEN acc.processedItems[k].quantity ELSE 0
      RECURSIVE TakenUpTo(_)
      TakenUpTo(k) == IF k = 0 THEN 0 ELSE Taken(k) + TakenUpTo(k - 1)
  IN  [ cur EXCEPT !.remainingQuantity = @ + TakenUpTo(Len(acc.processedItems)) ]

\* sizeItem of a line: the entry of the in-memory lot document found for its
\* color and size, carrying what the lines before it left (lines 75, 88).
SizeItem(acc, i, j) ==
  acc.doc.items[i].sizes[j]

\* The validation / calculation loop over validatedData.soldItems, run on the
\* in-memory lot document.  acc.error is set by the first failing line;
\* acc.steps lists, in order, the lines that passed their checks (line 110
\* reached) and the lines whose quantity was taken from the document (line 130).
RECURSIVE SaleLoop(_, _, _)
SaleLoop(acc, soldItems, k) ==
  IF k > Len(soldItems) THEN acc
  ELSE
    LET soldItem == soldItems[k]
        i == FindColor(acc.doc.items, soldItem.color)
    IN
    IF i = 0
      THEN [acc EXCEPT !.error =
              Resp("createSale", "VALIDATION_ERROR", <<"color", soldItem.color>>)]
    ELSE
      LET j == FindSize(acc.doc.items[i].sizes, soldItem.size) IN
      IF j = 0
        THEN [acc EXCEPT !.error =
                Resp("createSale", "VALIDATION_ERROR", <<"size", soldItem.size>>)]
      ELSE
        LET sizeItem == SizeItem(acc, i, j)
            itemTotalAmount == soldItem.quantity * soldItem.sellPricePerPiece
            totalSellAmount == soldItem.quantity * soldItem.sellPricePerPiece
            totalPurchaseAmount == soldItem.quantity * sizeItem.purchaseCostPerPiece
            itemProfit == totalSellAmount - totalPurchaseAmount
        IN
        IF InsufficientStock(sizeItem, soldItem)
          THEN [acc EXCEPT !.error =
                  Resp("createSale", "INSUFFICIENT_STOCK",
                       <<soldItem.color, soldItem.size,
                         sizeItem.remainingQuantity, soldItem.quantity>>)]
        ELSE
          SaleLoop(
            [ doc |-> [acc.doc EXCEPT !.items[i].sizes[j].remainingQuantity =
                                         @ - soldItem.quantity],
              totalRevenue |-> acc.totalRevenue + itemTotalAmount,
              totalProfit |-> acc.totalProfit + itemProfit,
              processedItems |-> Append(acc.processedItems,
                 [ color |-> soldItem.color,
                   size |-> soldItem.size,
                   quantity |-> soldItem.quantity,
                   sellPricePerPiece |-> soldItem.sellPricePerPiece,
                   totalAmount |-> itemTotalAmount ]),
              touched |-> acc.touched \cup {<<i, j>>},
              steps |-> acc.steps \o << <<"validated", k>>, <<"decremented", k>> >>,
              error |-> acc.error ],
            soldItems, k + 1)

\* Mutant of the lot financials: profit recomputed as revenue - investment.
ProcessSale_net(lot, soldItems) ==
  LET acc == SaleLoop([ doc |-> lot, totalRevenue |-> 0, totalProfit |-> 0,
                        processedItems |-> << >>, touched |-> {},
                        steps |-> << >>, error |-> NoResp ], soldItems, 1)
  IN  IF acc.error # NoResp THEN acc
      ELSE [acc EXCEPT !.doc.totalRevenue = @ + acc.totalRevenue,
                       !.doc.totalProfit =
                          (lot.totalRevenue + acc.totalRevenue) - lot.totalInvestment]

\* The loop followed by the update of the lot financials (lines 69-135).
ProcessSale(lot, soldItems) ==
  LET acc == SaleLoop([ doc |-> lot, totalRevenue |-> 0, totalProfit |-> 0,
                        processedItems |-> << >>, touched |-> {},
                        steps |-> << >>, error |-> NoResp ], soldItems, 1)
  IN  IF acc.error # NoResp THEN acc
      ELSE [acc EXCEPT !.doc.totalRevenue = @ + acc.totalRevenue,
                       !.doc.totalProfit = @ + acc.totalProfit]

\* Mutant of the save: a sold size is stored with its quantity lowered to what
\* remains of it.
ApplySaleDelta_shrink(cur, w) ==
  [ cur EXCEPT
      !.items = [ i \in 1 .. Len(cur.items) |->
                    [ cur.items[i] EXCEPT
                        !.sizes = [ j \in 1 .. Len(cur.items[i].sizes) |->
                                      IF <<i, j>> \in w.touched
                                        THEN [ cur.items[i].sizes[j] EXCEPT
                                                 !.remainingQuantity =
                                                   w.doc.items[i].sizes[j].remainingQuantity,
                                                 !.quantity =
                                                   w.doc.items[i].sizes[j].remainingQuantity ]
                                        ELSE cur.items[i].sizes[j] ] ] ],
      !.totalRevenue = w.doc.totalRevenue,
      !.totalProfit = w.doc.totalProfit ]

\* The update sent by lot.save(): $set of the modified paths of the document.
ApplySaleDelta(cur, w) ==
  [ cur EXCEPT
      !.items = [ i \in 1 .. Len(cur.items) |->
                    [ cur.items[i] EXCEPT
                        !.sizes = [ j \in 1 .. Len(cur.items[i].sizes) |->
                                      IF <<i, j>> \in w.touched
                                        THEN [ cur.items[i].sizes[j] EXCEPT
                                                 !.remainingQuantity =
                                                   w.doc.items[i].sizes[j].remainingQuantity ]
                                        ELSE cur.items[i].sizes[j] ] ] ],
      !.totalRevenue = w.doc.totalRevenue,
      !.totalProfit = w.doc.totalProfit ]

\* The document passed to Transaction.create.
NewTransaction(u, lotId, w) ==
  [ tenantId |-> u.tenantId,
    lotId |-> lotId,
    soldItems |-> w.processedItems,
    totalRevenue |-> w.totalRevenue,
    soldBy |-> u.userId,
    createdAt |-> w.createdAt ]

\* History: the margin of the lines of a sale at the purchase costs the lot
\* holds when the sale commits.
RECURSIVE MarginOf(_, _)
MarginOf(lot, lines) ==
  IF lines = << >> THEN 0
  ELSE LET l == Head(lines)
           i == FindColor(lot.items, l.color)
           j == FindSize(lot.items[i].sizes, l.size)
       IN  l.quantity * (l.sellPricePerPiece - lot.items[i].sizes[j].purchaseCostPerPiece)
             + MarginOf(lot, Tail(lines))

\* Mutant of the handler: the lot is saved line by line, so a failing line
\* leaves the decrements of the lines before it in the store.
SaleRead_partial(p, u, lotId, soldItems) ==
  /\ Begin(p, Req(u, lotId, [soldItems |-> soldItems]))
  /\ LET lot == FindLot(lotId, u.tenantId)
         w == ProcessSale(lot, soldItems)
     IN
     IF ~ createSaleSchema([soldItems |-> soldItems])
       THEN Finish(p, Resp("createSale", "VALIDATION_ERROR", <<"body">>)) /\ lots' = lots
     ELSE IF ~ IsValidObjectId(lotId)
       THEN Finish(p, Resp("createSale", "VALIDATION_ERROR", <<"lotId">>)) /\ lots' = lots
     ELSE IF lot = NoDoc
       THEN Finish(p, Resp("createSale", "NOT_FOUND", << >>)) /\ lots' = lots
     ELSE IF w.error # NoResp
       THEN Finish(p, w.error) /\ lots' = [lots EXCEPT ![lotId] = w.doc]
     ELSE Goto(p, "saleRead", w) /\ lots' = lots
  /\ stale' = [stale EXCEPT ![p] = FALSE]
  /\ session' = [session EXCEPT ![p] = IF pc'[p] = "saleRead" THEN SessionOpen
                                        ELSE SessionAborted]
  /\ UNCHANGED <<nextLotId, now, txns, margins>>

\* createSale from its first line to the end of the loop, for the request r
\* whose field id holds validatedData.lotId: startTransaction,
\* createSaleSchema.parse, the ObjectId check, the snapshot read
\* Lot.findOne(...).session(session) and the loop (lines 22-135).
SaleHead(p, r) ==
  /\ Begin(p, r)
  /\ LET lot == FindLot(r.id, r.user.tenantId)
         w == ProcessSale(lot, r.body.soldItems)
     IN
     IF ~ createSaleSchema(r.body)
       THEN Finish(p, Resp("createSale", "VALIDATION_ERROR", <<"body">>))
     ELSE IF ~ IsValidObjectId(r.id)
       THEN Finish(p, Resp("createSale", "VALIDATION_ERROR", <<"lotId">>))
     ELSE IF lot = NoDoc
       THEN Finish(p, Resp("createSale", "NOT_FOUND", << >>))
     ELSE IF w.error # NoResp
       THEN Finish(p, w.error)
     ELSE Goto(p, "saleRead", w)
  /\ stale' = [stale EXCEPT ![p] = FALSE]
  /\ session' = [session EXCEPT ![p] = IF pc'[p] = "saleRead" THEN SessionOpen
                                        ELSE SessionAborted]
  /\ UNCHANGED <<lots, nextLotId, now, txns, margins>>

\* POST /api/transactions with the body { lotId, soldItems }.
SaleRead(p, u, lotId, soldItems) ==
  SaleHead(p, Req(u, lotId, [soldItems |-> soldItems]))

\* POST /api/lots/:id/sell with the body { lotId, soldItems }: the route
\* hands the request to the same createSale, which reads validatedData.lotId.
SellRead(p, u, id, lotId, soldItems) ==
  SaleHead(p, [ user |-> u, id |-> lotId, body |-> [soldItems |-> soldItems],
                params |-> [id |-> id] ])

\* Mutant of the storage: writes of concurrent transactions never conflict.
WriteConflict_never(p) == FALSE

\* The write of lot.save({ session }) conflicts when the lot was written after
\* the snapshot was taken or is write-locked by another open transaction.
WriteConflict(p) ==
  \/ stale[p]
  \/ \E q \in Procs \ {p} :
       pc[q] \in {"saleSaved", "saleInserted"} /\ req[q].id = req[p].id

\* abortTransaction in the catch block and the SERVER_ERROR response.
SaleAbort(p) ==
  /\ Finish(p, Resp("createSale", "SERVER_ERROR", << >>))
  /\ stale' = [stale EXCEPT ![p] = FALSE]
  /\ session' = [session EXCEPT ![p] = AbortCalls(p, @)]
  /\ UNCHANGED <<lots, nextLotId, now, txns, margins, req, calls>>

\* Mutant of the storage: the save of a transaction succeeds whatever was
\* written to the lot since its snapshot.
SaleSave_blind(p) ==
  /\ pc[p] = "saleRead"
  /\ pc' = [pc EXCEPT ![p] = "saleSaved"]
  /\ UNCHANGED <<lots, nextLotId, now, txns, margins, req, work, resp, stale, session, calls>>

\* await lot.save({ session }) succeeds: the update is pending in the transaction.
SaleSave(p) ==
  /\ pc[p] = "saleRead"
  /\ ~ WriteConflict(p)
  /\ pc' = [pc EXCEPT ![p] = "saleSaved"]
  /\ UNCHANGED <<lots, nextLotId, now, txns, margins, req, work, resp, stale, session, calls>>

\* await lot.save({ session }) throws: write conflict or storage failure.
SaleSaveFail(p) ==
  /\ pc[p] = "saleRead"
  /\ SaleAbort(p)

\* The locals of the handler with the createdAt of the transaction document,
\* set by its schema default Date.now when the document is built.
Stamped(w, t) ==
  [ f \in (DOMAIN w) \cup {"createdAt"} |-> IF f = "createdAt" THEN t ELSE w[f] ]

\* await Transaction.create([...], { session }) succeeds: the insert is pending.
SaleInsert(p) ==
  /\ pc[p] = "saleSaved"
  /\ pc' = [pc EXCEPT ![p] = "saleInserted"]
  /\ work' = [work EXCEPT ![p] = Stamped(@, now)]
  /\ UNCHANGED <<lots, nextLotId, now, txns, margins, req, resp, stale, session, calls>>

\* Mutant of the handler: lot.save() runs outside the session, so its write
\* stays when the transaction insert fails.
SaleInsertFail_lotKept(p) ==
  /\ pc[p] = "saleSaved"
  /\ lots' = [lots EXCEPT ![req[p].id] = ApplySaleDelta(@, work[p])]
  /\ Finish(p, Resp("createSale", "SERVER_ERROR", << >>))
  /\ stale' = [stale EXCEPT ![p] = FALSE]
  /\ session' = [session EXCEPT ![p] = AbortCalls(p, @)]
  /\ UNCHANGED <<nextLotId, now, txns, margins, req, calls>>

\* await Transaction.create throws.
SaleInsertFail(p) ==
  /\ pc[p] = "saleSaved"
  /\ SaleAbort(p)

\* Mutant of the commit: a sale equal to a recorded one is answered with the
\* recorded transaction and applied no second time.
SaleCommit_idempotent(p) ==
  /\ pc[p] = "saleInserted"
  /\ LET t == NewTransaction(req[p].user, req[p].id, work[p])
         seen == { k \in 1 .. Len(txns) : txns[k] = t }
     IN  IF seen # {}
           THEN /\ UNCHANGED <<lots, txns, margins>>
                /\ stale' = [stale EXCEPT ![p] = FALSE]
                /\ Finish(p, Resp("createSale", "CREATED", <<CHOOSE k \in seen : TRUE>>))
           ELSE /\ lots' = [lots EXCEPT ![req[p].id] = ApplySaleDelta(@, work[p])]
                /\ txns' = Append(txns, t)
                /\ margins' = Append(margins,
                                     MarginOf(lots[req[p].id], work[p].processedItems))
                /\ stale' = [MarkStale(req[p].id) EXCEPT ![p] = FALSE]
                /\ Finish(p, Resp("createSale", "CREATED", <<Len(txns) + 1>>))
  /\ session' = [session EXCEPT ![p] = @ \o <<"commitTransaction", "endSession">>]
  /\ UNCHANGED <<nextLotId, now, req, calls>>

\* await session.commitTransaction() succeeds: both writes become visible.
SaleCommit(p) ==
  /\ pc[p] = "saleInserted"
  /\ lots' = [lots EXCEPT ![req[p].id] = ApplySaleDelta(@, work[p])]
  /\ txns' = Append(txns, NewTransaction(req[p].user, req[p].id, work[p]))
  /\ margins' = Append(margins, MarginOf(lots[req[p].id], work[p].processedItems))
  /\ stale' = [MarkStale(req[p].id) EXCEPT ![p] = FALSE]
  /\ session' = [session EXCEPT ![p] = @ \o <<"commitTransaction", "endSession">>]
  /\ Finish(p, Resp("createSale", "CREATED", <<Len(txns) + 1>>))
  /\ UNCHANGED <<nextLotId, now, req, calls>>

\* Mutant of the handler: Transaction.create runs outside the session, so the
\* transaction document stays when the commit fails.
SaleCommitFail_txnKept(p) ==
  /\ pc[p] = "saleInserted"
  /\ txns' = Append(txns, NewTransaction(req[p].user, req[p].id, work[p]))
  /\ margins' = Append(margins, MarginOf(lots[req[p].id], work[p].processedItems))
  /\ Finish(p, Resp("createSale", "SERVER_ERROR", << >>))
  /\ stale' = [stale EXCEPT ![p] = FALSE]
  /\ session' = [session EXCEPT ![p] = AbortCalls(p, @)]
  /\ UNCHANGED <<lots, nextLotId, now, req, calls>>

\* await session.commitTransaction() throws and the catch block runs to its
\* SERVER_ERROR response.
SaleCommitFail(p) ==
  /\ pc[p] = "saleInserted"
  /\ SaleAbort(p)

\* await session.commitTransaction() throws and the driver, which holds the
\* transaction as committed once commitTransaction was called, rejects the
\* abortTransaction of the catch block (line 156): the handler is left by
\* that rejection after endSession, before any response is sent.
SaleCommitReject(p) ==
  /\ pc[p] = "saleInserted"
  /\ Finish(p, NoResp)
  /\ stale' = [stale EXCEPT ![p] = FALSE]
  /\ session' = [session EXCEPT ![p] =
                   @ \o <<"commitTransaction failed", "abortTransaction rejected",
                          "endSession">>]
  /\ UNCHANGED <<lots, nextLotId, now, txns, margins, req, calls>>

\* ---------------------------------------------------------------- updateLot
\* Mutant of the edit: a size keeps the remaining quantity it had, capped by
\* its new quantity.
UpdatedDoc_keepSold(doc, body) ==
  [ doc EXCEPT
      !.lotNumber = body.lotNumber,
      !.items =
         [ i \in 1 .. Len(body.items) |->
             [ color |-> body.items[i].color,
               sizes |-> [ j \in 1 .. Len(body.items[i].sizes) |->
                  LET sent == SeedItems(body.items)[i].sizes[j]
                      old == IF i <= Len(doc.items) /\ j <= Len(doc.items[i].sizes)
                               THEN doc.items[i].sizes[j].remainingQuantity
                               ELSE sent.quantity
                  IN  [ sent EXCEPT !.remainingQuantity =
                                      IF old < sent.quantity THEN old ELSE sent.quantity ] ] ] ],
      !.totalInvestment = Investment(body.items) ]

\* The in-memory document after the assignments of lines 314-316.
UpdatedDoc(doc, body) ==
  [ doc EXCEPT !.lotNumber = body.lotNumber,
               !.items = SeedItems(body.items),
               !.totalInvestment = Investment(body.items) ]

\* Mutant of the save: the whole document read by updateLot is written back.
ApplyUpdateDelta_wholeDoc(cur, doc, body) ==
  [ UpdatedDoc(doc, body) EXCEPT !.v = cur.v + 1 ]

\* existingLot.save(): mongoose sends $set for the paths whose value differs
\* from the value read; replacing the items array adds the condition on the
\* version key __v and increments it.
ApplyUpdateDelta(cur, doc, body) ==
  LET new == UpdatedDoc(doc, body)
  IN  [ cur EXCEPT
          !.lotNumber = IF new.lotNumber # doc.lotNumber THEN new.lotNumber ELSE @,
          !.items = IF new.items # doc.items THEN new.items ELSE @,
          !.totalInvestment =
             IF new.totalInvestment # doc.totalInvestment THEN new.totalInvestment ELSE @,
          !.v = IF new.items # doc.items THEN @ + 1 ELSE @ ]

\* The ObjectId check, createLotSchema.parse and Lot.findOne({ _id, tenantId }).
UpdateLotFind(p, u, id, body) ==
  /\ Begin(p, Req(u, id, body))
  /\ LET existingLot == FindLot(id, u.tenantId) IN
     IF ~ IsValidObjectId(id)
       THEN Finish(p, Resp("updateLot", "VALIDATION_ERROR", << >>))
     ELSE IF ~ createLotSchema(body)
       THEN Finish(p, Resp("updateLot", "VALIDATION_ERROR", << >>))
     ELSE IF existingLot = NoDoc
       THEN Finish(p, Resp("updateLot", "NOT_FOUND", << >>))
     ELSE Goto(p, IF body.lotNumber # existingLot.lotNumber THEN "updateDup"
                  ELSE "updateSave", existingLot)
  /\ NoSession(p)
  /\ UNCHANGED <<lots, nextLotId, now, txns, margins, stale>>

\* Mutant of the rename: the duplicate check is left to the unique index.
UpdateLotDup_unchecked(p) ==
  /\ pc[p] = "updateDup"
  /\ pc' = [pc EXCEPT ![p] = "updateSave"]
  /\ UNCHANGED <<lots, nextLotId, now, txns, margins, req, work, resp, stale, session, calls>>

\* The duplicate check Lot.findOne({ tenantId, lotNumber, _id: { $ne: id } }).
UpdateLotDup(p) ==
  /\ pc[p] = "updateDup"
  /\ IF LotNumberTaken(req[p].user.tenantId, req[p].body.lotNumber, req[p].id)
       THEN Finish(p, Resp("updateLot", "VALIDATION_ERROR", << >>))
     ELSE /\ pc' = [pc EXCEPT ![p] = "updateSave"]
          /\ UNCHANGED <<work, resp>>
  /\ UNCHANGED <<lots, nextLotId, now, txns, margins, req, stale, session, calls>>

\* Mutant of the save: the whole document as read and edited is written back.
UpdateLotSave_overwrite(p) ==
  /\ pc[p] = "updateSave"
  /\ ~ WriteLocked(req[p].id)
  /\ LET id == req[p].id
         doc == work[p]
         new == UpdatedDoc(doc, req[p].body)
     IN
     IF \/ id \notin DOMAIN lots
        \/ /\ new.lotNumber # doc.lotNumber
           /\ LotNumberTaken(doc.tenantId, new.lotNumber, id)
       THEN /\ Finish(p, Resp("updateLot", "SERVER_ERROR", << >>))
            /\ UNCHANGED <<lots, stale>>
     ELSE /\ lots' = [lots EXCEPT ![id] = new]
          /\ stale' = IF lots'[id] # lots[id] THEN MarkStale(id) ELSE stale
          /\ Finish(p, Resp("updateLot", "OK", <<id>>))
  /\ UNCHANGED <<nextLotId, now, txns, margins, req, session, calls>>

\* await existingLot.save(): fails when the document is gone, when its version
\* key no longer matches, or when the unique index rejects the new lotNumber.
UpdateLotSave(p) ==
  /\ pc[p] = "updateSave"
  /\ ~ WriteLocked(req[p].id)
  /\ LET id == req[p].id
         doc == work[p]
         new == UpdatedDoc(doc, req[p].body)
     IN
     IF \/ id \notin DOMAIN lots
        \/ new.items # doc.items /\ lots[id].v # doc.v
        \/ /\ new.lotNumber # doc.lotNumber
           /\ LotNumberTaken(doc.tenantId, new.lotNumber, id)
       THEN /\ Finish(p, Resp("updateLot", "SERVER_ERROR", << >>))
            /\ UNCHANGED <<lots, stale>>
     ELSE /\ lots' = [lots EXCEPT ![id] = ApplyUpdateDelta(@, doc, req[p].body)]
          /\ stale' = IF lots'[id] # lots[id] THEN MarkStale(id) ELSE stale
          /\ Finish(p, Resp("updateLot", "OK", <<id>>))
  /\ UNCHANGED <<nextLotId, now, txns, margins, req, session, calls>>

\* ---------------------------------------------------------------- deleteLot
\* Mutant of the authorization check: && written as ||.
DeleteForbidden_or(u, lot) ==
  u.role # "admin" \/ lot.createdBy # u.userId

\* The authorization check of line 451 (admin or creator only).
DeleteForbidden(u, lot) ==
  u.role # "admin" /\ lot.createdBy # u.userId

\* The ObjectId check, Lot.findOne({ _id, tenantId }) and the authorization check.
DeleteLotFind(p, u, id) ==
  /\ Begin(p, Req(u, id, << >>))
  /\ LET lot == FindLot(id, u.tenantId) IN
     IF ~ IsValidObjectId(id)
       THEN Finish(p, Resp("deleteLot", "VALIDATION_ERROR", << >>))
     ELSE IF lot = NoDoc
       THEN Finish(p, Resp("deleteLot", "NOT_FOUND", << >>))
     ELSE IF DeleteForbidden(u, lot)
       THEN Finish(p, Resp("deleteLot", "FORBIDDEN", << >>))
     ELSE Goto(p, "deleteDo", NoDoc)
  /\ NoSession(p)
  /\ UNCHANGED <<lots, nextLotId, now, txns, margins, stale>>

\* Mutant of the deletion: the transactions of the lot are deleted with it.
DeleteLotDo_cascade(p) ==
  /\ pc[p] = "deleteDo"
  /\ ~ WriteLocked(req[p].id)
  /\ lots' = [ k \in DOMAIN lots \ {req[p].id} |-> lots[k] ]
  /\ LET zipped == [ k \in 1 .. Len(txns) |-> <<txns[k], margins[k]>> ]
         kept == SelectSeq(zipped, LAMBDA z : z[1].lotId # req[p].id)
     IN  /\ txns' = [ k \in 1 .. Len(kept) |-> kept[k][1] ]
         /\ margins' = [ k \in 1 .. Len(kept) |-> kept[k][2] ]
  /\ stale' = IF req[p].id \in DOMAIN lots THEN MarkStale(req[p].id) ELSE stale
  /\ Finish(p, Resp("deleteLot", "OK", << >>))
  /\ UNCHANGED <<nextLotId, now, req, session, calls>>

\* await Lot.findByIdAndDelete(id).
DeleteLotDo(p) ==
  /\ pc[p] = "deleteDo"
  /\ ~ WriteLocked(req[p].id)
  /\ lots' = [ k \in DOMAIN lots \ {req[p].id} |-> lots[k] ]
  /\ stale' = IF req[p].id \in DOMAIN lots THEN MarkStale(req[p].id) ELSE stale
  /\ Finish(p, Resp("deleteLot", "OK", << >>))
  /\ UNCHANGED <<nextLotId, now, txns, margins, req, session, calls>>

\* ------------------------------------------------------------------- getLot
\* The ObjectId check and Lot.findOne({ _id, tenantId }); the response carries
\* the lot found.
GetLot(p, u, id) ==
  /\ Begin(p, Req(u, id, << >>))
  /\ LET lot == FindLot(id, u.tenantId) IN
     IF ~ IsValidObjectId(id)
       THEN Finish(p, Resp("getLot", "VALIDATION_ERROR", << >>))
     ELSE IF lot = NoDoc
       THEN Finish(p, Resp("getLot", "NOT_FOUND", << >>))
     ELSE Finish(p, Resp("getLot", "OK", <<id>>))
  /\ NoSession(p)
  /\ UNCHANGED <<lots, nextLotId, now, txns, margins, stale>>

\* -------------------------------------------------------- generateLotNumber
\* tenant.settings.lotPrefix of the Tenant documents; the schema default is
\* 'LOT-' and no handler writes the field.
TenantLotPrefix(tenantId) == <<"L", "O", "T", "-">>

DigitChars == <<"0", "1", "2", "3", "4", "5", "6", "7", "8", "9">>

IsDigit(c) == \E d \in 1 .. 10 : DigitChars[d] = c

DigitValue(c) == (CHOOSE d \in 1 .. 10 : DigitChars[d] = c) - 1

\* lotNumber.match(/(\d+)$/): the longest suffix made of digits; << >> stands
\* for no match.
TrailingDigits(str) ==
  LET starts == { k \in 1 .. Len(str) : \A m \in k .. Len(str) : IsDigit(str[m]) }
  IN  IF starts = {} THEN << >>
      ELSE SubSeq(str, CHOOSE k \in starts : \A m \in starts : k <= m, Len(str))

\* parseInt(digits, 10).
RECURSIVE ParseInt(_)
ParseInt(digits) ==
  IF digits = << >> THEN 0
  ELSE 10 * ParseInt(SubSeq(digits, 1, Len(digits) - 1)) + DigitValue(digits[Len(digits)])

\* Number.prototype.toString of a non-negative integer.
RECURSIVE NumberToString(_)
NumberToString(n) ==
  IF n < 10 THEN <<DigitChars[n + 1]>>
  ELSE Append(NumberToString(n \div 10), DigitChars[(n % 10) + 1])

\* String.prototype.padStart(width, fill) with a one-character fill.
PadStart(str, width, fill) ==
  IF Len(str) >= width THEN str
  ELSE [ k \in 1 .. (width - Len(str)) |-> fill ] \o str

\* Mutant of the lookup: the lot with the greatest number instead of the lot
\* created last.
LastLot_highest(tenantId) ==
  LET own == { k \in DOMAIN lots : lots[k].tenantId = tenantId }
  IN  IF own = {} THEN NoDoc
      ELSE lots[CHOOSE k \in own : \A m \in own :
                  ParseInt(TrailingDigits(lots[m].lotNumber))
                    <= ParseInt(TrailingDigits(lots[k].lotNumber))]

\* Lot.findOne({ tenantId }).sort({ createdAt: -1 }): the lot of the tenant
\* created last; _ids are handed out in creation order.
LastLot(tenantId) ==
  LET own == { k \in DOMAIN lots : lots[k].tenantId = tenantId }
  IN  IF own = {} THEN NoDoc
      ELSE lots[CHOOSE k \in own : \A m \in own : m <= k]

\* The number computed by lines 373-391.
NextLotNumber(tenantId) ==
  LET prefix == IF TenantLotPrefix(tenantId) = << >> THEN <<"L", "O", "T", "-">>
                ELSE TenantLotPrefix(tenantId)
      lastLot == LastLot(tenantId)
      match == IF lastLot = NoDoc THEN << >> ELSE TrailingDigits(lastLot.lotNumber)
      nextNumber == IF match = << >> THEN 1 ELSE ParseInt(match) + 1
      paddedNumber == PadStart(NumberToString(nextNumber), 4, "0")
  IN  prefix \o paddedNumber

\* Tenant.findById, the lookup of the last lot and the response.  The request
\* writes nothing and holds no handler open; it is not counted in calls.
GenerateLotNumber(p, u) ==
  /\ pc[p] = "idle"
  /\ req' = [req EXCEPT ![p] = Req(u, BadId, << >>)]
  /\ Finish(p, Resp("generateLotNumber", "OK", <<NextLotNumber(u.tenantId)>>))
  /\ NoSession(p)
  /\ UNCHANGED <<lots, nextLotId, now, txns, margins, stale, calls>>

\* ----------------------------------------------------------- getTransaction
\* .populate('lotId', 'lotNumber'): a second query on the lots collection; the
\* reference of a lot that no longer exists is populated with null.
PopulateLot(lotId) ==
  IF lotId \in DOMAIN lots THEN <<lotId, lots[lotId].lotNumber>> ELSE NoDoc

\* The transaction with _id tid of the tenant, NoDoc if there is none.
FindTransaction(tid, tenantId) ==
  IF tid \in 1 .. Len(txns) /\ txns[tid].tenantId = tenantId THEN txns[tid] ELSE NoDoc

\* The ObjectId check and Transaction.findOne({ _id, tenantId }).
GetTransactionFind(p, u, tid) ==
  /\ Begin(p, Req(u, tid, << >>))
  /\ LET transaction == FindTransaction(tid, u.tenantId) IN
     IF ~ IsValidObjectId(tid)
       THEN Finish(p, Resp("getTransaction", "VALIDATION_ERROR", << >>))
     ELSE IF transaction = NoDoc
       THEN Finish(p, Resp("getTransaction", "NOT_FOUND", << >>))
     ELSE Goto(p, "txnPopulate", transaction)
  /\ NoSession(p)
  /\ UNCHANGED <<lots, nextLotId, now, txns, margins, stale>>

\* The populate query and the response carrying the populated transaction.
GetTransactionPopulate(p) ==
  /\ pc[p] = "txnPopulate"
  /\ Finish(p, Resp("getTransaction", "OK",
                    <<[work[p] EXCEPT !.lotId = PopulateLot(@)]>>))
  /\ UNCHANGED <<lots, nextLotId, now, txns, margins, req, stale, session, calls>>

\* -------------------------------------------------------- authenticateToken
\* A JWT as jwt.verify sees it: its payload, whether its signature matches
\* JWT_SECRET, and whether it is past its expiry.
Token(payload, signed, expired) ==
  [payload |-> payload, signed |-> signed, expired |-> expired]

\* The authorization header, split at the blanks; << >> when it is absent.
NoHeader == << >>
Bearer(token) == <<"Bearer", token>>

\* Mutant of the verification: the payload is decoded without checking the
\* signature or the expiry.
VerifyToken_decodeOnly(token) ==
  IF token.payload.role \in {"admin", "staff"} THEN token.payload ELSE NoDoc

\* verifyToken (jwt.ts): jwt.verify and isJWTPayload; NoDoc stands for a throw.
VerifyToken(token) ==
  IF token.signed /\ ~ token.expired /\ token.payload.role \in {"admin", "staff"}
    THEN token.payload
    ELSE NoDoc

\* authHeader && authHeader.split(' ')[1]; NoDoc when there is no token.
HeaderToken(header) == IF Len(header) >= 2 THEN header[2] ELSE NoDoc

\* req.user as authenticateToken sets it before next(); NoDoc when the
\* middleware answers itself.
Principal(header) ==
  IF HeaderToken(header) = NoDoc THEN NoDoc ELSE VerifyToken(HeaderToken(header))

\* The principals the requests with the headers H reach the handlers with.
Principals(H) == { Principal(h) : h \in H } \ {NoDoc}

\* authenticateToken answers 401 without a token and 403 with a token that
\* does not verify; next() is not called and no handler runs.
AuthReject(p, header) ==
  /\ pc[p] = "idle"
  /\ calls < MaxCalls
  /\ Principal(header) = NoDoc
  /\ calls' = calls + 1
  /\ req' = [req EXCEPT ![p] = [user |-> NoDoc, id |-> BadId, body |-> << >>,
                                header |-> header]]
  /\ Finish(p, Resp("authenticateToken", "AUTH_ERROR",
                    <<IF HeaderToken(header) = NoDoc THEN 401 ELSE 403>>))
  /\ NoSession(p)
  /\ UNCHANGED <<lots, nextLotId, now, txns, margins, stale>>

\* ------------------------------------------------------------------ getLots
\* Lot.find(query): the lots of the tenant, in _id order.
RECURSIVE FindLotsIn(_, _)
FindLotsIn(ids, tenantId) ==
  IF ids = {} THEN << >>
  ELSE LET k == CHOOSE m \in ids : \A n \in ids : m <= n
       IN  (IF lots[k].tenantId = tenantId THEN <<k>> ELSE << >>)
             \o FindLotsIn(ids \ {k}, tenantId)

\* Mutant of the query: Lot.find({}) without the tenant filter.
FindLots_allTenants(tenantId) ==
  LET all == FindLotsIn(DOMAIN lots, "A") \o FindLotsIn(DOMAIN lots, "B")
  IN  [ k \in 1 .. Len(all) |-> lots[all[k]] ]

\* Lot.find({ tenantId }): the documents of the tenant's lots.
FindLots(tenantId) ==
  LET own == FindLotsIn(DOMAIN lots, tenantId)
  IN  [ k \in 1 .. Len(own) |-> lots[own[k]] ]

\* getLots with the default query (page 1, limit 10, no search): the _ids of
\* the tenant's lots, newest first, and their count.
GetLots(p, u) ==
  /\ Begin(p, Req(u, BadId, << >>))
  /\ LET own == FindLotsIn(DOMAIN lots, u.tenantId)
         newestFirst == [ k \in 1 .. Len(own) |-> own[Len(own) + 1 - k] ]
         limit == IF Len(own) < 10 THEN Len(own) ELSE 10
     IN  Finish(p, Resp("getLots", "OK", <<SubSeq(newestFirst, 1, limit), Len(own)>>))
  /\ NoSession(p)
  /\ UNCHANGED <<lots, nextLotId, now, txns, margins, stale>>

\* --------------------------------------------------------- getDashboardStats
\* array.reduce((sum, doc) => sum + doc[field], 0).
RECURSIVE ReduceSum(_, _)
ReduceSum(docs, field) ==
  IF docs = << >> THEN 0 ELSE Head(docs)[field] + ReduceSum(Tail(docs), field)

\* lot.items.some(color => color.sizes.some(size => size.remainingQuantity > 0)).
HasStock(lot) ==
  \E i \in 1 .. Len(lot.items) : \E j \in 1 .. Len(lot.items[i].sizes) :
    lot.items[i].sizes[j].remainingQuantity > 0

\* The data of the response (lines 18-43).
DashboardStats(tenantId) ==
  LET found == FindLots(tenantId)
  IN  [ totalInvestment |-> ReduceSum(found, "totalInvestment"),
        totalRevenue |-> ReduceSum(found, "totalRevenue"),
        totalProfit |-> ReduceSum(found, "totalProfit"),
        activeLots |-> Len(found),
        lotsWithStock |-> Len(SelectSeq(found, HasStock)) ]

\* getDashboardStats: one query and the response.
GetDashboardStats(p, u) ==
  /\ Begin(p, Req(u, BadId, << >>))
  /\ Finish(p, Resp("getDashboardStats", "OK", <<DashboardStats(u.tenantId)>>))
  /\ NoSession(p)
  /\ UNCHANGED <<lots, nextLotId, now, txns, margins, stale>>

\* -------------------------------------------------------------- getChartData
\* The clock counts half days; the chart looks 30 days back.
TicksPerDay == 2
WindowDays == 30

\* new Date(createdAt).toISOString().split('T')[0]: the calendar day of an instant.
DateOf(t) == t \div TicksPerDay

\* Array.prototype.sort, which is stable: the indices 1 .. n in the order in
\* which the compare function puts the elements with these indices; before
\* holds the pairs <<a, b>> of indices it puts in the order a, b.
Ordered(n, before) ==
  CHOOSE f \in [1 .. n -> 1 .. n] :
    \A i, j \in 1 .. n :
      i < j => \/ <<f[i], f[j]>> \in before
               \/ <<f[j], f[i]>> \notin before /\ f[i] < f[j]

\* Transaction.find({ tenantId, createdAt: { $gte: thirtyDaysAgo } })
\*   .sort({ createdAt: 1 }).
FindRecentTransactions(tenantId) ==
  LET thirtyDaysAgo == now - WindowDays * TicksPerDay
      hit == SelectSeq(txns, LAMBDA t : t.tenantId = tenantId
                                          /\ t.createdAt >= thirtyDaysAgo)
      ord == Ordered(Len(hit), { ab \in (1 .. Len(hit)) \X (1 .. Len(hit)) :
                                  hit[ab[1]].createdAt < hit[ab[2]].createdAt })
  IN  [ k \in 1 .. Len(hit) |-> hit[ord[k]] ]

\* revenueByDate (lines 120-129): revenue and number of the transactions of
\* each day, as a function on the days that have a transaction.
RevenueByDate(transactions) ==
  [ d \in { DateOf(transactions[k].createdAt) : k \in 1 .. Len(transactions) } |->
      LET onDay == SelectSeq(transactions, LAMBDA t : DateOf(t.createdAt) = d)
      IN  [ revenue |-> ReduceSum(onDay, "totalRevenue"),
            transactions |-> Len(onDay) ] ]

\* profitByDate[date] || 0 (lines 133-139, 145): the totalProfit of the lots
\* created on the day that have revenue.
ProfitByDate(found, d) ==
  ReduceSum(SelectSeq(found, LAMBDA lot : DateOf(lot.createdAt) = d
                                            /\ lot.totalRevenue > 0),
            "totalProfit")

\* revenueTrend (lines 141-148): one entry per day of revenueByDate, by date.
RevenueTrend(transactions, found) ==
  LET byDate == RevenueByDate(transactions)
      days == DOMAIN byDate
      RECURSIVE Asc(_)
      Asc(S) == IF S = {} THEN << >>
                ELSE LET d == CHOOSE x \in S : \A y \in S : x <= y
                     IN  << [ date |-> d,
                              revenue |-> byDate[d].revenue,
                              profit |-> ProfitByDate(found, d),
                              transactions |-> byDate[d].transactions ] >>
                           \o Asc(S \ {d})
  IN  Asc(days)

\* salesByLot (lines 151-158): the ten lots with the highest revenue.
SalesByLot(found) ==
  LET sold == SelectSeq(found, LAMBDA lot : lot.totalRevenue > 0)
      ord == Ordered(Len(sold), { ab \in (1 .. Len(sold)) \X (1 .. Len(sold)) :
                                   sold[ab[1]].totalRevenue > sold[ab[2]].totalRevenue })
      all == [ k \in 1 .. Len(sold) |->
                 [ lotNumber |-> sold[ord[k]].lotNumber,
                   revenue |-> sold[ord[k]].totalRevenue,
                   profit |-> sold[ord[k]].totalProfit,
                   investment |-> sold[ord[k]].totalInvestment ] ]
  IN  SubSeq(all, 1, IF Len(all) < 10 THEN Len(all) ELSE 10)

\* lot.items.reduce over color.sizes.reduce of one field of the sizes.
RECURSIVE SumItems(_, _)
SumItems(items, field) ==
  IF items = << >> THEN 0
  ELSE ReduceSum(Head(items).sizes, field) + SumItems(Tail(items), field)

\* inventoryStatus (lines 161-179): the ten lots sold to the highest degree;
\* soldPercentage = sold / total * 100 is held as the fraction <<sold * 100, total>>.
InventoryStatus(found) ==
  LET stat == [ k \in 1 .. Len(found) |->
                  LET total == SumItems(found[k].items, "quantity")
                      remaining == SumItems(found[k].items, "remainingQuantity")
                  IN  [ lotNumber |-> found[k].lotNumber,
                        total |-> total,
                        sold |-> total - remaining,
                        remaining |-> remaining,
                        soldPercentage |-> <<(total - remaining) * 100, total>> ] ]
      kept == SelectSeq(stat, LAMBDA s : s.total > 0)
      ord == Ordered(Len(kept), { ab \in (1 .. Len(kept)) \X (1 .. Len(kept)) :
                                   kept[ab[1]].sold * kept[ab[2]].total
                                     > kept[ab[2]].sold * kept[ab[1]].total })
      all == [ k \in 1 .. Len(kept) |-> kept[ord[k]] ]
  IN  SubSeq(all, 1, IF Len(all) < 10 THEN Len(all) ELSE 10)

\* The query of the transactions of the last 30 days (lines 108-114).
ChartFindTransactions(p, u) ==
  /\ Begin(p, Req(u, BadId, << >>))
  /\ Goto(p, "chartLots", [transactions |-> FindRecentTransactions(u.tenantId)])
  /\ NoSession(p)
  /\ UNCHANGED <<lots, nextLotId, now, txns, margins, stale>>

\* The query of the lots (line 117) and the response.
ChartFindLots(p) ==
  /\ pc[p] = "chartLots"
  /\ LET found == FindLots(req[p].user.tenantId)
     IN  Finish(p, Resp("getChartData", "OK",
                        << [ revenueTrend |-> RevenueTrend(work[p].transactions, found),
                             salesByLot |-> SalesByLot(found),
                             inventoryStatus |-> InventoryStatus(found) ] >>))
  /\ UNCHANGED <<lots, nextLotId, now, txns, margins, req, stale, session, calls>>

\* --------------------------------------------------------------------- clock
\* The instants at which requests arrive: morning and evening of day 0, the
\* morning of day 1, and the evening of day 30.
Instants == {0, 1, 2, 61}

\* Time passes.
Tick ==
  /\ \E t \in Instants : t > now /\ now' = t
  /\ UNCHANGED <<lots, nextLotId, txns, margins, pc, req, work, resp, stale, calls, session>>

\* --------------------------------------------------------------------- Next
Shape1 == << [color |-> "Red", sizes |-> << SizeIn("M", 2, 1, 3) >>] >>
Shape2 == << [color |-> "Red", sizes |-> << SizeIn("M", 1, 2, 2), SizeIn("L", 1, 1, 2) >>] >>

\* Request bodies of POST /lots and PUT /lots/:id; BodyBad fails createLotSchema.
\* A lot number is a string, held as its sequence of characters.
LOT0001 == <<"L", "O", "T", "-", "0", "0", "0", "1">>
LOT0002 == <<"L", "O", "T", "-", "0", "0", "0", "2">>
Body1 == [lotNumber |-> LOT0001, items |-> Shape1]
Body2 == [lotNumber |-> LOT0001, items |-> Shape2]
Body3 == [lotNumber |-> LOT0002, items |-> Shape1]
BodyBad == [lotNumber |-> LOT0001, items |-> << >>]
\* A lot of two colors.
Shape3 ==
  << [color |-> "Red", sizes |-> << SizeIn("M", 2, 1, 3) >>],
     [color |-> "Blue", sizes |-> << SizeIn("S", 1, 2, 4), SizeIn("M", 3, 0, 1) >>] >>
Body4 == [lotNumber |-> LOT0002, items |-> Shape3]
\* A lot that lists the pair (Red, M) twice; createLotSchema accepts it.
ShapeDup == << [color |-> "Red", sizes |-> << SizeIn("M", 1, 1, 3), SizeIn("M", 1, 1, 3) >>] >>
BodyDup == [lotNumber |-> LOT0001, items |-> ShapeDup]
Bodies == {Body1, Body2, Body3, Body4, BodyDup, BodyBad}

\* soldItems of the sale request bodies.
SellOne == << Line("Red", "M", 1, 3) >>
SellOneDear == << Line("Red", "M", 1, 5) >>
SellTwo == << Line("Red", "M", 2, 3) >>
SellTwice == << Line("Red", "M", 1, 3), Line("Red", "M", 1, 3) >>
SellLateShort == << Line("Red", "L", 1, 2), Line("Red", "M", 2, 2) >>
SellNoColor == << Line("Red", "M", 1, 2), Line("Blue", "M", 1, 2) >>
SellNoSize == << Line("Red", "XL", 1, 2) >>
SellNothing == << >>
SoldItemChoices ==
  { SellOne, SellOneDear, SellTwo, SellTwice, SellLateShort, SellNoColor, SellNoSize,
    SellNothing }

\* Ids a request can name: every existing lot, an id no lot has, a malformed id.
Ids == (DOMAIN lots) \cup {nextLotId, BadId}

\* The requests drawn from the users U, the lot bodies B and the sold items S.
CreateOps(p, U, B) ==
  \/ \E u \in U, body \in B : CreateLotCheck(p, u, body)
  \/ CreateLotInsert(p)

SaleOps(p, U, S) ==
  \/ \E u \in U, id \in Ids, s \in S : SaleRead(p, u, id, s)
  \/ SaleSave(p)
  \/ SaleSaveFail(p)
  \/ SaleInsert(p)
  \/ SaleInsertFail(p)
  \/ SaleCommit(p)
  \/ SaleCommitFail(p)
  \/ SaleCommitReject(p)

UpdateOps(p, U, B) ==
  \/ \E u \in U, id \in Ids, body \in B : UpdateLotFind(p, u, id, body)
  \/ UpdateLotDup(p)
  \/ UpdateLotSave(p)

DeleteOps(p, U) ==
  \/ \E u \in U, id \in Ids : DeleteLotFind(p, u, id)
  \/ DeleteLotDo(p)

GetOps(p, U) ==
  \E u \in U, id \in Ids : GetLot(p, u, id)

\* The new-lot page: the number answered by generate-number is submitted with
\* the lot form by the user who asked for it.
CreateGenerated(p, I) ==
  \E q \in Procs, items \in I :
    /\ resp[q].op = "generateLotNumber"
    /\ CreateLotCheck(p, req[q].user, [lotNumber |-> resp[q].detail[1], items |-> items])

GenerateOps(p, U) ==
  \E u \in U : GenerateLotNumber(p, u)

\* Ids a transaction lookup can name: every transaction, an unused id, a malformed id.
TxnIds == (1 .. (Len(txns) + 1)) \cup {BadId}

GetTransactionOps(p, U) ==
  \/ \E u \in U, tid \in TxnIds : GetTransactionFind(p, u, tid)
  \/ GetTransactionPopulate(p)

\* Concurrent sales of one tenant against lots that are only created and sold.
NextSale ==
  \E p \in Procs :
    \/ CreateOps(p, {Admin}, {Body1, Body2})
    \/ SaleOps(p, {Admin},
               {SellOne, SellOneDear, SellTwo, SellTwice, SellLateShort, SellNoColor})

SpecSale == Init /\ [][NextSale]_vars

\* The lot store of one tenant under every handler that writes it.
NextLedger ==
  \E p \in Procs :
    \/ CreateOps(p, {Admin}, {Body1, Body2})
    \/ SaleOps(p, {Admin}, {SellOne, SellOneDear, SellLateShort})
    \/ UpdateOps(p, {Admin}, {Body1, Body2, Body3})
    \/ DeleteOps(p, {Admin})

SpecLedger == Init /\ [][NextLedger]_vars

\* Sales against lots of every shape createLotSchema accepts.
NextStock ==
  \E p \in Procs :
    \/ CreateOps(p, {Admin}, {Body1, BodyDup})
    \/ SaleOps(p, {Admin}, {SellOne, SellTwice})

SpecStock == Init /\ [][NextStock]_vars

\* Two tenants using every lot and sale endpoint.
NextTenant ==
  \E p \in Procs :
    \/ CreateOps(p, {Admin, Other}, {Body1})
    \/ SaleOps(p, {Admin, Other}, {SellOne})
    \/ UpdateOps(p, {Admin, Other}, {Body3})
    \/ DeleteOps(p, {Admin, Other})
    \/ GetOps(p, {Admin, Other})

SpecTenant == Init /\ [][NextTenant]_vars

\* Creation and deletion of lots by users of every role.
NextAuth ==
  \E p \in Procs :
    \/ CreateOps(p, Users, {Body1, Body3})
    \/ DeleteOps(p, Users)

SpecAuth == Init /\ [][NextAuth]_vars

\* The store after user u has created one lot from body.
InitWithLot(u, body) ==
  /\ now = 0
  /\ session = [p \in Procs |-> << >>]
  /\ lots = [ k \in {1} |-> NewLot(u, body) ]
  /\ nextLotId = 2
  /\ txns = << >>
  /\ margins = << >>
  /\ pc = [p \in Procs |-> "idle"]
  /\ req = [p \in Procs |-> NoReq]
  /\ work = [p \in Procs |-> NoDoc]
  /\ resp = [p \in Procs |-> NoResp]
  /\ stale = [p \in Procs |-> FALSE]
  /\ calls = 0

\* Every lot, sale and lookup endpoint, starting from one lot of tenant A.
NextArchive ==
  \E p \in Procs :
    \/ CreateOps(p, {Admin}, {Body3})
    \/ SaleOps(p, {Admin}, {SellOne})
    \/ UpdateOps(p, {Admin}, {Body3})
    \/ DeleteOps(p, {Admin})
    \/ GetOps(p, {Admin})
    \/ GetTransactionOps(p, {Admin, Other})

SpecArchive == InitWithLot(Admin, Body1) /\ [][NextArchive]_vars

\* Lot numbering of two tenants: generated and typed numbers, and renames.
NextNumbering ==
  \E p \in Procs :
    \/ GenerateOps(p, {Admin, Other})
    \/ CreateGenerated(p, {Shape1})
    \/ CreateOps(p, {Admin, Other}, {Body1})
    \/ UpdateOps(p, {Admin}, {Body3})

SpecNumbering == Init /\ [][NextNumbering]_vars

\* Creation and full edit of lots of every shape by two tenants, with sales.
NextCatalog ==
  \E p \in Procs :
    \/ CreateOps(p, {Admin, Other}, {Body1, Body4, BodyBad})
    \/ SaleOps(p, {Admin}, {SellOne})
    \/ UpdateOps(p, {Admin, Other}, {Body2, Body4})

SpecCatalog == Init /\ [][NextCatalog]_vars

\* Lot numbers users have typed: with a carry, at the end of width 4, with a
\* digit but no trailing number, and with another prefix and leading zeros.
LOT0009 == <<"L", "O", "T", "-", "0", "0", "0", "9">>
LOT9999 == <<"L", "O", "T", "-", "9", "9", "9", "9">>
NumInner == <<"A", "1", "B">>
NumOther == <<"X", "-", "0", "4", "1">>
LotNumberChoices == {LOT0009, LOT9999, NumInner, NumOther}

\* Largest number of lots in a store the numbering starts from.
MaxSeeded == 2

\* The stores reached when the admin of tenant A has created up to MaxSeeded
\* lots with typed numbers.
InitSeeded ==
  /\ now = 0
  /\ session = [p \in Procs |-> << >>]
  /\ \E n \in 0 .. MaxSeeded :
       \E numbers \in [1 .. n -> LotNumberChoices] :
         /\ \A a, b \in 1 .. n : a # b => numbers[a] # numbers[b]
         /\ lots = [ k \in 1 .. n |->
                       NewLot(Admin, [lotNumber |-> numbers[k], items |-> Shape1]) ]
         /\ nextLotId = n + 1
  /\ txns = << >>
  /\ margins = << >>
  /\ pc = [p \in Procs |-> "idle"]
  /\ req = [p \in Procs |-> NoReq]
  /\ work = [p \in Procs |-> NoDoc]
  /\ resp = [p \in Procs |-> NoResp]
  /\ stale = [p \in Procs |-> FALSE]
  /\ calls = 0

\* Number generation over seeded stores, with the writes that move the last lot.
NextGenerate ==
  \E p \in Procs :
    \/ GenerateOps(p, {Admin, Other})
    \/ CreateGenerated(p, {Shape1})
    \/ DeleteOps(p, {Admin})

SpecGenerate == InitSeeded /\ [][NextGenerate]_vars

\* Tokens clients present: the tokens issued at login to the admin of tenant A
\* and to the user of tenant B, a token naming the staff member of tenant A
\* signed with another key, one of that member past its expiry, and a signed
\* token whose payload carries no known role.
TokAdmin == Token(Admin, TRUE, FALSE)
TokOther == Token(Other, TRUE, FALSE)
TokForged == Token(Staff, FALSE, FALSE)
TokExpired == Token(Staff, TRUE, TRUE)
TokShape == Token([userId |-> 1, tenantId |-> "A", role |-> "owner"], TRUE, FALSE)
GateHeaders ==
  { NoHeader, <<"Bearer">>, Bearer(TokAdmin), Bearer(TokOther), Bearer(TokForged),
    Bearer(TokExpired), Bearer(TokShape) }

\* The users holding a token that verifies.
GateIssued == {Admin, Other}

DashboardOps(p, U) ==
  \E u \in U : GetDashboardStats(p, u)

GetLotsOps(p, U) ==
  \E u \in U : GetLots(p, u)

\* The lot, transaction and dashboard routes behind router.use(authenticateToken).
NextGate ==
  \E p \in Procs :
    \/ \E h \in GateHeaders : AuthReject(p, h)
    \/ CreateOps(p, Principals(GateHeaders), {Body1})
    \/ SaleOps(p, Principals(GateHeaders), {SellOne})
    \/ DeleteOps(p, Principals(GateHeaders))
    \/ GetTransactionOps(p, Principals(GateHeaders))
    \/ DashboardOps(p, Principals(GateHeaders))

SpecGate == Init /\ [][NextGate]_vars

ChartOps(p, U) ==
  \/ \E u \in U : ChartFindTransactions(p, u)
  \/ ChartFindLots(p)

\* The store after the admin of tenant A has created a lot of one size and a
\* lot of two colors, and the user of tenant B a lot of one size.
InitStocked ==
  /\ now = 0
  /\ session = [p \in Procs |-> << >>]
  /\ lots = [ k \in 1 .. 3 |->
                IF k = 1 THEN NewLot(Admin, Body1)
                ELSE IF k = 2 THEN NewLot(Admin, Body4)
                ELSE NewLot(Other, Body1) ]
  /\ nextLotId = 4
  /\ txns = << >>
  /\ margins = << >>
  /\ pc = [p \in Procs |-> "idle"]
  /\ req = [p \in Procs |-> NoReq]
  /\ work = [p \in Procs |-> NoDoc]
  /\ resp = [p \in Procs |-> NoResp]
  /\ stale = [p \in Procs |-> FALSE]
  /\ calls = 0

\* Every query endpoint next to sales, over the lots of two tenants.
NextDashboard ==
  \E p \in Procs :
    \/ SaleOps(p, {Admin}, {SellTwo})
    \/ DashboardOps(p, {Admin, Other})
    \/ GetOps(p, {Admin})
    \/ GetLotsOps(p, {Other})
    \/ GetTransactionOps(p, {Admin})
    \/ GenerateOps(p, {Other})
    \/ ChartOps(p, {Admin})

SpecDashboard == InitStocked /\ [][NextDashboard]_vars

\* Sales submitted through POST /api/lots/:id/sell, with the path and body
\* ids drawn from I.
SellOps(p, U, I, S) ==
  \/ \E u \in U, id \in I, lotId \in I, s \in S : SellRead(p, u, id, lotId, s)
  \/ SaleSave(p)
  \/ SaleSaveFail(p)
  \/ SaleInsert(p)
  \/ SaleInsertFail(p)
  \/ SaleCommit(p)
  \/ SaleCommitFail(p)
  \/ SaleCommitReject(p)

\* Sales through the sell route against the two lots of tenant A.
NextSell ==
  \E p \in Procs : SellOps(p, {Admin}, {1, 2, BadId}, {SellOne})

SpecSell == InitStocked /\ [][NextSell]_vars

\* Sales of one lot over several days, and the chart of its tenant.
NextChart ==
  \/ Tick
  \/ \E p \in Procs :
       \/ SaleOps(p, {Admin}, {SellOne})
       \/ ChartOps(p, {Admin})

SpecChart == InitWithLot(Admin, Body1) /\ [][NextChart]_vars

\* All handlers, all users, every header, and the clock.
Next ==
  \/ Tick
  \/ \E p \in Procs :
       \/ \E header \in GateHeaders : AuthReject(p, header)
       \/ CreateOps(p, Users, Bodies)
       \/ SaleOps(p, Users, SoldItemChoices)
       \/ SellOps(p, Users, Ids, SoldItemChoices)
       \/ UpdateOps(p, Users, Bodies)
       \/ DeleteOps(p, Users)
       \/ GetOps(p, Users)
       \/ GetLotsOps(p, Users)
       \/ GetTransactionOps(p, Users)
       \/ GenerateOps(p, Users)
       \/ CreateGenerated(p, {Shape1, Shape2})
       \/ DashboardOps(p, Users)
       \/ ChartOps(p, Users)

Spec == Init /\ [][Next]_vars

\* ================================================================== claims
\* All (lot id, color index, size index) positions of the committed store.
Positions ==
  UNION { UNION { { <<id, i, j>> : j \in 1 .. Len(lots[id].items[i].sizes) } :
                  i \in 1 .. Len(lots[id].items) } :
          id \in DOMAIN lots }

SizeAt(pos) == lots[pos[1]].items[pos[2]].sizes[pos[3]]
ColorAt(pos) == lots[pos[1]].items[pos[2]].color

\* Quantity of the pair (color, size) in the lines of one request or transaction.
RECURSIVE LineQty(_, _, _)
LineQty(lines, color, size) ==
  IF lines = << >> THEN 0
  ELSE (IF Head(lines).color = color /\ Head(lines).size = size
          THEN Head(lines).quantity ELSE 0)
       + LineQty(Tail(lines), color, size)

\* Quantity of the pair (color, size) sold by the first k transactions of lot id.
RECURSIVE SoldQty(_, _, _, _)
SoldQty(k, id, color, size) ==
  IF k = 0 THEN 0
  ELSE (IF txns[k].lotId = id THEN LineQty(txns[k].soldItems, color, size) ELSE 0)
       + SoldQty(k - 1, id, color, size)

\* Revenue of the lines of a request: quantity * sell price per line.
RECURSIVE RevenueOf(_)
RevenueOf(lines) ==
  IF lines = << >> THEN 0
  ELSE Head(lines).quantity * Head(lines).sellPricePerPiece + RevenueOf(Tail(lines))

\* Sum of f[k] over the first k transactions that reference lot id.
RECURSIVE SumOver(_, _, _)
SumOver(f, k, id) ==
  IF k = 0 THEN 0
  ELSE (IF txns[k].lotId = id THEN f[k] ELSE 0) + SumOver(f, k - 1, id)

TxnsOf(id) == { k \in 1 .. Len(txns) : txns[k].lotId = id }

\* The request slot p has just received a request.
Began(p) ==
  /\ calls' = calls + 1
  /\ <<pc[p], req[p], resp[p]>>' # <<pc[p], req[p], resp[p]>>

\* The request slot p takes a step of createSale after its snapshot read.
SaleStep(p) ==
  /\ pc[p] \in {"saleRead", "saleSaved", "saleInserted"}
  /\ pc'[p] # pc[p]

\* The commit step of a successful createSale in slot p.
Committed(p) ==
  /\ pc[p] = "saleInserted"
  /\ resp'[p].code = "CREATED"

\* C1: no overselling under concurrency.  For a size with original stock R,
\* when every committed sale of the lot is a single line of quantity Q for
\* that size, however the calls interleave, the number of successful calls is
\* at most R \div Q and the persisted remaining quantity is R - Q * (that
\* number), never negative.
C1_NoOverselling ==
  \A pos \in Positions :
    LET id == pos[1]
        R == SizeAt(pos).quantity
        n == Cardinality(TxnsOf(id))
    IN  \A Q \in 1 .. R :
          ( \A k \in TxnsOf(id) :
               /\ Len(txns[k].soldItems) = 1
               /\ txns[k].soldItems[1].color = ColorAt(pos)
               /\ txns[k].soldItems[1].size = SizeAt(pos).size
               /\ txns[k].soldItems[1].quantity = Q )
          => /\ n <= R \div Q
             /\ SizeAt(pos).remainingQuantity = R - Q * n
             /\ SizeAt(pos).remainingQuantity >= 0

\* A sale has committed while a concurrent sale of the same lot had already
\* read the lot: the snapshot of the second call is out of date.
C1_Witness ==
  \E p \in Procs :
    /\ pc[p] = "saleRead"
    /\ stale[p]
    /\ TxnsOf(req[p].id) # {}
    /\ req[p].id \in DOMAIN lots

\* C2: in every reachable state every size entry of every existing lot has
\* 0 <= remainingQuantity <= quantity.
C2_StockWithinBounds ==
  \A pos \in Positions :
    /\ 0 <= SizeAt(pos).remainingQuantity
    /\ SizeAt(pos).remainingQuantity <= SizeAt(pos).quantity

\* A lot that was sold from and then edited by updateLot.
C2_Witness ==
  \E id \in DOMAIN lots :
    /\ TxnsOf(id) # {}
    /\ lots[id].v > 0

\* C3: a createSale call that fails with NOT_FOUND, VALIDATION_ERROR or
\* INSUFFICIENT_STOCK leaves the lots collection and the transactions
\* collection exactly as they were.
C3_FailedSaleChangesNothing ==
  [][ \A p \in Procs :
        ( /\ Began(p)
          /\ resp'[p].op = "createSale"
          /\ resp'[p].code \in {"NOT_FOUND", "VALIDATION_ERROR", "INSUFFICIENT_STOCK"} )
        => /\ lots' = lots
           /\ txns' = txns ]_vars

\* A two-line sale whose second line lacks stock after the first line passed
\* has failed, and the lot still holds its full stock.
C3_Witness ==
  \E p \in Procs :
    /\ pc[p] = "idle"
    /\ resp[p].op = "createSale"
    /\ resp[p].code = "INSUFFICIENT_STOCK"
    /\ req[p].body.soldItems = SellLateShort
    /\ req[p].id \in DOMAIN lots
    /\ lots[req[p].id].items = SeedItems(Shape2)
    /\ txns = << >>

\* C4: the lot update and the transaction insert of one createSale become
\* visible in the same step or not at all: a step of the call either changes
\* neither collection (also when save, insert or commit fails) or it is the
\* commit, which appends the transaction and applies its revenue to the lot.
C4_AtomicVisibility ==
  [][ \A p \in Procs :
        SaleStep(p) =>
          IF resp'[p].code = "CREATED"
            THEN /\ Len(txns') = Len(txns) + 1
                 /\ txns'[Len(txns')].lotId = req[p].id
                 /\ lots' # lots
                 /\ lots'[req[p].id].totalRevenue =
                      lots[req[p].id].totalRevenue + txns'[Len(txns')].totalRevenue
            ELSE /\ lots' = lots
                 /\ txns' = txns ]_vars

\* Both writes of a sale are pending in its transaction and neither is visible.
C4_Witness ==
  \E p \in Procs :
    /\ pc[p] = "saleInserted"
    /\ work[p].doc # lots[req[p].id]
    /\ TxnsOf(req[p].id) = {}
    /\ lots[req[p].id].totalRevenue = 0

\* C5: conservation.  For a lot created by createLot whose items were never
\* replaced by updateLot, every size has
\* quantity = remainingQuantity + quantity sold of its (color, size) over all
\* transactions referencing the lot.
C5_Conservation ==
  \A pos \in Positions :
    lots[pos[1]].v = 0 =>
      SizeAt(pos).quantity =
        SizeAt(pos).remainingQuantity
          + SoldQty(Len(txns), pos[1], ColorAt(pos), SizeAt(pos).size)

C7_ServerSidePrice ==
  [][ \A p \in Procs :
        Committed(p) =>
          LET lot == lots[req[p].id]
              t == txns'[Len(txns')]
          IN  \A k \in 1 .. Len(t.soldItems) :
                LET i == FindColor(lot.items, t.soldItems[k].color)
                    j == FindSize(lot.items[i].sizes, t.soldItems[k].size)
                IN  t.soldItems[k].sellPricePerPiece =
                      lot.items[i].sizes[j].sellCostPerPiece ]_vars

\* C8: tenant isolation.  A sale, delete, update or lookup naming a lot of
\* another tenant answers NOT_FOUND without data and changes nothing; no step
\* of a request changes or removes a lot of another tenant, and a transaction
\* it adds belongs to its own tenant and references a lot of its own tenant.
C8_TenantIsolation ==
  [][ \A p \in Procs :
        /\ ( /\ Began(p)
             /\ req'[p].id \in DOMAIN lots
             /\ lots[req'[p].id].tenantId # req'[p].user.tenantId )
           => /\ pc'[p] = "idle"
              /\ resp'[p] \in { Resp(op, "NOT_FOUND", << >>) :
                                  op \in {"createSale", "deleteLot", "updateLot", "getLot"} }
              /\ lots' = lots
              /\ txns' = txns
        /\ (Began(p) \/ pc'[p] # pc[p])
           => /\ \A id \in DOMAIN lots :
                   lots[id].tenantId # req'[p].user.tenantId
                     => id \in DOMAIN lots' /\ lots'[id] = lots[id]
              /\ \A k \in 1 .. Len(txns) : txns'[k] = txns[k]
              /\ \A k \in (Len(txns) + 1) .. Len(txns') :
                   /\ txns'[k].tenantId = req'[p].user.tenantId
                   /\ lots[txns'[k].lotId].tenantId = req'[p].user.tenantId ]_vars

\* A principal has named an existing lot of another tenant and got NOT_FOUND.
C8_Witness ==
  \E p \in Procs :
    /\ pc[p] = "idle"
    /\ resp[p].code = "NOT_FOUND"
    /\ req[p].id \in DOMAIN lots
    /\ lots[req[p].id].tenantId # req[p].user.tenantId

C10_DeleteAuthorization ==
  [][ /\ \A p \in Procs :
           ( /\ Began(p)
             /\ pc'[p] = "deleteDo" \/ resp'[p].op = "deleteLot"
             /\ IsValidObjectId(req'[p].id) )
           => LET u == req'[p].user
                  id == req'[p].id
                  found == id \in DOMAIN lots /\ lots[id].tenantId = u.tenantId
              IN  IF ~ found
                    THEN pc'[p] = "idle" /\ resp'[p].code = "NOT_FOUND"
                  ELSE IF u.role = "admin" \/ u.userId = lots[id].createdBy
                    THEN pc'[p] = "deleteDo" /\ lots' = lots
                  ELSE /\ pc'[p] = "idle"
                       /\ resp'[p].code = "FORBIDDEN"
                       /\ lots' = lots
      /\ \A p \in Procs :
           (pc[p] = "deleteDo" /\ pc'[p] # pc[p])
           => /\ resp'[p] = Resp("deleteLot", "OK", << >>)
              /\ req[p].id \notin DOMAIN lots'
      /\ \A id \in (DOMAIN lots) \ (DOMAIN lots') :
           \E p \in Procs :
             /\ pc[p] = "deleteDo"
             /\ req[p].id = id
             /\ req[p].user.tenantId = lots[id].tenantId
             /\ req[p].user.role = "admin" \/ req[p].user.userId = lots[id].createdBy
    ]_vars

\* A staff member of the lot's tenant was refused the deletion of a lot
\* created by someone else, and the lot is still there.
C10_Witness ==
  \E p \in Procs :
    /\ pc[p] = "idle"
    /\ resp[p] = Resp("deleteLot", "FORBIDDEN", << >>)
    /\ req[p].user.role = "staff"
    /\ req[p].id \in DOMAIN lots
    /\ lots[req[p].id].tenantId = req[p].user.tenantId
    /\ lots[req[p].id].createdBy # req[p].user.userId

\* C11: deletion independence.  deleteLot of an authorized caller succeeds
\* whatever number of transactions reference the lot and changes no
\* transaction; every transaction stays readable by its tenant with its sold
\* items and totalRevenue intact, and the reference to a deleted lot is
\* answered as an empty marker, not as an error.
C11_DeletionIndependence ==
  [][ /\ \A p \in Procs :
           ( /\ Began(p)
             /\ pc'[p] = "deleteDo" \/ resp'[p].op = "deleteLot"
             /\ req'[p].id \in DOMAIN lots
             /\ lots[req'[p].id].tenantId = req'[p].user.tenantId
             /\ \/ req'[p].user.role = "admin"
                \/ req'[p].user.userId = lots[req'[p].id].createdBy )
           => pc'[p] = "deleteDo" /\ txns' = txns
      /\ \A p \in Procs :
           (pc[p] = "deleteDo" /\ pc'[p] # pc[p])
           => /\ resp'[p] = Resp("deleteLot", "OK", << >>)
              /\ req[p].id \notin DOMAIN lots'
              /\ txns' = txns
      /\ \A p \in Procs :
           ( /\ Began(p)
             /\ pc'[p] = "txnPopulate" \/ resp'[p].op = "getTransaction"
             /\ req'[p].id \in 1 .. Len(txns)
             /\ txns[req'[p].id].tenantId = req'[p].user.tenantId )
           => pc'[p] = "txnPopulate" /\ work'[p] = txns[req'[p].id]
      /\ \A p \in Procs :
           (pc[p] = "txnPopulate" /\ pc'[p] # pc[p])
           => LET t == txns[req[p].id] IN
              /\ resp'[p].op = "getTransaction"
              /\ resp'[p].code = "OK"
              /\ resp'[p].detail[1].soldItems = t.soldItems
              /\ resp'[p].detail[1].totalRevenue = t.totalRevenue
              /\ t.lotId \notin DOMAIN lots => resp'[p].detail[1].lotId = NoDoc
    ]_vars

\* A transaction whose lot has been deleted was read by its tenant: the answer
\* carries its lines and revenue and an empty lot reference.
C11_Witness ==
  \E p \in Procs :
    /\ pc[p] = "idle"
    /\ resp[p].op = "getTransaction"
    /\ resp[p].code = "OK"
    /\ req[p].id \in 1 .. Len(txns)
    /\ txns[req[p].id].lotId \notin DOMAIN lots
    /\ resp[p].detail[1].lotId = NoDoc
    /\ resp[p].detail[1].soldItems = txns[req[p].id].soldItems
    /\ resp[p].detail[1].totalRevenue = txns[req[p].id].totalRevenue

\* C12: transactions are append-only.  Every step keeps every existing
\* transaction unchanged and in place; the collection grows by exactly one
\* document in the step that answers a createSale with CREATED, and in no
\* other step of createSale, createLot, updateLot, deleteLot or a query.
C12_AppendOnly ==
  [][ /\ Len(txns') >= Len(txns)
      /\ \A k \in 1 .. Len(txns) : txns'[k] = txns[k]
      /\ IF \E p \in Procs : pc'[p] # pc[p] /\ resp'[p] # resp[p]
                               /\ resp'[p].op = "createSale" /\ resp'[p].code = "CREATED"
           THEN Len(txns') = Len(txns) + 1
           ELSE txns' = txns
    ]_vars

\* A transaction is still in the collection after its lot has been edited by
\* a successful updateLot.
C12_Witness ==
  \E p \in Procs :
    /\ pc[p] = "idle"
    /\ resp[p].op = "updateLot"
    /\ resp[p].code = "OK"
    /\ TxnsOf(req[p].id) # {}

\* C13: in every reachable state no two existing lots of the same tenant have
\* the same lotNumber, however concurrent createLot and updateLot (rename)
\* calls interleave; lots of different tenants may share a lotNumber.
C13_UniqueLotNumber ==
  \A a, b \in DOMAIN lots :
    (a # b /\ lots[a].tenantId = lots[b].tenantId)
      => lots[a].lotNumber # lots[b].lotNumber

\* The unique index has refused the second of two racing writes of tenant A
\* while a lot of tenant B carries the number of a lot of tenant A.
C13_Witness ==
  /\ \E p \in Procs :
       /\ pc[p] = "idle"
       /\ resp[p].code = "SERVER_ERROR"
       /\ resp[p].op \in {"createLot", "updateLot"}
  /\ \E a, b \in DOMAIN lots :
       /\ lots[a].tenantId # lots[b].tenantId
       /\ lots[a].lotNumber = lots[b].lotNumber

\* Index pairs (color index, size index) of the items of a request body.
BodyPositions(items) ==
  UNION { { <<i, j>> : j \in 1 .. Len(items[i].sizes) } : i \in 1 .. Len(items) }

\* Sum of quantity * purchaseCostPerPiece over the sizes at the positions S.
RECURSIVE CostOver(_, _)
CostOver(S, items) ==
  IF S = {} THEN 0
  ELSE LET pos == CHOOSE x \in S : TRUE
           sz == items[pos[1]].sizes[pos[2]]
       IN  sz.quantity * sz.purchaseCostPerPiece + CostOver(S \ {pos}, items)

\* The persisted items hold exactly the colors and sizes of the submitted
\* items, in order, every size with remainingQuantity = quantity.
HoldsSubmitted(lot, items) ==
  /\ Len(lot.items) = Len(items)
  /\ \A i \in 1 .. Len(items) :
       /\ lot.items[i].color = items[i].color
       /\ Len(lot.items[i].sizes) = Len(items[i].sizes)
       /\ \A j \in 1 .. Len(items[i].sizes) :
            LET got == lot.items[i].sizes[j]
                sent == items[i].sizes[j]
            IN  /\ got.size = sent.size
                /\ got.quantity = sent.quantity
                /\ got.remainingQuantity = sent.quantity
                /\ got.purchaseCostPerPiece = sent.purchaseCostPerPiece
                /\ got.sellCostPerPiece = sent.sellCostPerPiece

\* C14: a successful createLot persists a lot in which every size has
\* remainingQuantity = quantity, totalInvestment is the sum over all sizes of
\* quantity * purchaseCostPerPiece, totalRevenue = 0, totalProfit = 0,
\* tenantId is the caller's tenant and createdBy is the caller.
C14_CreateLotResult ==
  [][ \A p \in Procs :
        ( /\ pc[p] = "createInsert"
          /\ pc'[p] = "idle"
          /\ resp'[p].code = "CREATED" )
        => LET id == resp'[p].detail[1]
               items == req[p].body.items
           IN  /\ id \notin DOMAIN lots
               /\ id \in DOMAIN lots'
               /\ HoldsSubmitted(lots'[id], items)
               /\ lots'[id].lotNumber = req[p].body.lotNumber
               /\ lots'[id].totalInvestment = CostOver(BodyPositions(items), items)
               /\ lots'[id].totalRevenue = 0
               /\ lots'[id].totalProfit = 0
               /\ lots'[id].tenantId = req[p].user.tenantId
               /\ lots'[id].createdBy = req[p].user.userId
               /\ \A k \in DOMAIN lots : lots'[k] = lots[k] ]_vars

\* A lot of two colors and three sizes has been created by a user of tenant B.
C14_Witness ==
  \E p \in Procs :
    /\ pc[p] = "idle"
    /\ resp[p].op = "createLot"
    /\ resp[p].code = "CREATED"
    /\ req[p].user = Other
    /\ req[p].body = Body4
    /\ resp[p].detail[1] \in DOMAIN lots
    /\ lots[resp[p].detail[1]].createdBy = Other.userId
    /\ lots[resp[p].detail[1]].totalInvestment = 4

\* C15: a createLot whose lotNumber is already used by a lot of the caller's
\* tenant fails with VALIDATION_ERROR and creates nothing, also when the
\* number is taken by a concurrent createLot after the duplicate check has
\* passed (two generate-number + createLot sequences that obtained the same
\* number): the loser of the race is answered VALIDATION_ERROR, never
\* SERVER_ERROR, and the winner CREATED.
C15_DuplicateRejected ==
  [][ \A p \in Procs :
        /\ ( /\ Began(p)
             /\ pc'[p] = "createInsert" \/ resp'[p].op = "createLot"
             /\ createLotSchema(req'[p].body)
             /\ LotNumberTaken(req'[p].user.tenantId, req'[p].body.lotNumber, BadId) )
           => /\ pc'[p] = "idle"
              /\ resp'[p].code = "VALIDATION_ERROR"
              /\ lots' = lots
        /\ (pc[p] = "createInsert" /\ pc'[p] = "idle")
           => IF LotNumberTaken(req[p].user.tenantId, req[p].body.lotNumber, BadId)
                THEN resp'[p].code = "VALIDATION_ERROR" /\ lots' = lots
                ELSE resp'[p].code = "CREATED" /\ lots' # lots ]_vars

\* Some size of the lot document has been sold from.
SoldFrom(lot) ==
  \E i \in 1 .. Len(lot.items) : \E j \in 1 .. Len(lot.items[i].sizes) :
    lot.items[i].sizes[j].remainingQuantity < lot.items[i].sizes[j].quantity

C17_ReplaceLotErrors ==
  [][ \A p \in Procs :
        /\ ( /\ Began(p)
             /\ pc'[p] \in {"updateDup", "updateSave"} \/ resp'[p].op = "updateLot"
             /\ IsValidObjectId(req'[p].id)
             /\ createLotSchema(req'[p].body) )
           => LET id == req'[p].id
                  found == /\ id \in DOMAIN lots
                           /\ lots[id].tenantId = req'[p].user.tenantId
              IN  /\ lots' = lots
                  /\ IF ~ found
                       THEN pc'[p] = "idle" /\ resp'[p].code = "NOT_FOUND"
                     ELSE IF req'[p].body.lotNumber = lots[id].lotNumber
                       THEN pc'[p] = "updateSave"
                     ELSE pc'[p] = "updateDup"
        /\ (pc[p] = "updateDup" /\ pc'[p] # pc[p])
           => /\ lots' = lots
              /\ IF \E k \in DOMAIN lots \ {req[p].id} :
                      /\ lots[k].tenantId = req[p].user.tenantId
                      /\ lots[k].lotNumber = req[p].body.lotNumber
                   THEN pc'[p] = "idle" /\ resp'[p].code = "VALIDATION_ERROR"
                   ELSE pc'[p] = "updateSave"
        /\ ( /\ pc[p] = "updateSave"
             /\ pc'[p] # pc[p]
             /\ req[p].body.lotNumber = work[p].lotNumber )
           => \/ resp'[p].code = "OK"
              \/ /\ resp'[p].code = "SERVER_ERROR"
                 /\ req[p].id \notin DOMAIN lots \/ lots[req[p].id].v # work[p].v
        /\ ( /\ pc'[p] # pc[p]
             /\ resp'[p].op = "updateLot"
             /\ resp'[p].code \in {"NOT_FOUND", "VALIDATION_ERROR"} )
           => lots' = lots ]_vars

\* A rename to the number of another lot of the tenant was refused, and the
\* lot still carries its own number and has never been written.
C17_Witness ==
  \E p \in Procs :
    /\ pc[p] = "idle"
    /\ resp[p].op = "updateLot"
    /\ resp[p].code = "VALIDATION_ERROR"
    /\ createLotSchema(req[p].body)
    /\ req[p].id \in DOMAIN lots
    /\ lots[req[p].id].lotNumber # req[p].body.lotNumber
    /\ lots[req[p].id].v = 0
    /\ \E k \in DOMAIN lots \ {req[p].id} :
         /\ lots[k].tenantId = lots[req[p].id].tenantId
         /\ lots[k].lotNumber = req[p].body.lotNumber

\* C18: when createSale fails with INSUFFICIENT_STOCK the error names the
\* color and size of a line of the request, that line's requested quantity,
\* and as available amount the remainingQuantity of that size persisted in
\* the lot at that moment, also when the request holds several lines for the
\* same (color, size).
C18_ReportedAvailable ==
  [][ \A p \in Procs :
        ( /\ Began(p)
          /\ resp'[p].op = "createSale"
          /\ resp'[p].code = "INSUFFICIENT_STOCK" )
        => LET lot == lots[req'[p].id]
               lines == req'[p].body.soldItems
               d == resp'[p].detail
               i == FindColor(lot.items, d[1])
               j == FindSize(lot.items[i].sizes, d[2])
           IN  /\ \E k \in 1 .. Len(lines) :
                    /\ lines[k].color = d[1]
                    /\ lines[k].size = d[2]
                    /\ lines[k].quantity = d[4]
               /\ d[3] = lot.items[i].sizes[j].remainingQuantity ]_vars

\* C19: createSale is not idempotent.  Every successful call, also one that
\* repeats a request that has succeeded before, appends a new transaction
\* document of its own, decrements the stock by the quantities of its lines
\* and adds their revenue and margin to the lot once more.  A call that fails
\* at save, insert or commit ends there (with SERVER_ERROR, or unanswered when
\* the abort after a failed commit is rejected) and is not retried, so a call
\* appends at most one transaction, in the step that ends it.
C19_NotIdempotent ==
  [][ /\ \A p \in Procs :
           Committed(p) =>
             LET id == req[p].id
                 lines == req[p].body.soldItems
                 t == txns'[Len(txns')]
             IN  /\ txns' = Append(txns, t)
                 /\ pc'[p] = "idle"
                 /\ resp'[p].detail = <<Len(txns')>>
                 /\ \A k \in 1 .. Len(txns) : resp'[p].detail # <<k>>
                 /\ t.lotId = id
                 /\ t.soldBy = req[p].user.userId
                 /\ Len(t.soldItems) = Len(lines)
                 /\ \A i \in 1 .. Len(lots[id].items) :
                      \A j \in 1 .. Len(lots[id].items[i].sizes) :
                        (FindColor(lots[id].items, lots[id].items[i].color) = i
                           /\ FindSize(lots[id].items[i].sizes,
                                       lots[id].items[i].sizes[j].size) = j)
                        => lots'[id].items[i].sizes[j].remainingQuantity =
                             lots[id].items[i].sizes[j].remainingQuantity
                               - LineQty(lines, lots[id].items[i].color,
                                         lots[id].items[i].sizes[j].size)
                 /\ lots'[id].totalRevenue = lots[id].totalRevenue + RevenueOf(lines)
                 /\ lots'[id].totalProfit = lots[id].totalProfit + MarginOf(lots[id], lines)
      /\ \A p \in Procs :
           (SaleStep(p) /\ ~ Committed(p))
           => /\ txns' = txns
              /\ \/ pc'[p] \in {"saleSaved", "saleInserted"}
                 \/ pc'[p] = "idle" /\ resp'[p] = Resp("createSale", "SERVER_ERROR", << >>)
                 \/ pc'[p] = "idle" /\ resp'[p] = NoResp
      /\ Len(txns') # Len(txns) => \E p \in Procs : Committed(p)
    ]_vars

\* The same sale request has succeeded twice: two equal transaction documents
\* are stored, the stock was decremented twice and the lot carries twice the
\* revenue.
C19_Witness ==
  /\ Len(txns) = 2
  /\ txns[1] = txns[2]
  /\ txns[1].lotId \in DOMAIN lots
  /\ lots[txns[1].lotId].totalRevenue = 2 * txns[1].totalRevenue
  /\ lots[txns[1].lotId].totalProfit = 2 * margins[1]
  /\ lots[txns[1].lotId].items[1].sizes[1].remainingQuantity =
       lots[txns[1].lotId].items[1].sizes[1].quantity
         - 2 * txns[1].soldItems[1].quantity

\* Value of the decimal digits that end str at position k and before, read
\* from the right; place is the weight of the digit at k.
RECURSIVE SuffixValue(_, _, _)
SuffixValue(str, k, place) ==
  IF k = 0 \/ ~ IsDigit(str[k]) THEN 0
  ELSE DigitValue(str[k]) * place + SuffixValue(str, k - 1, place * 10)

\* n written in decimal, filled with zeros on the left up to four characters.
Width4(n) ==
  LET D(m) == DigitChars[(m % 10) + 1]
  IN  IF n < 10000 THEN <<D(n \div 1000), D(n \div 100), D(n \div 10), D(n)>>
      ELSE <<D(n \div 10000), D(n \div 1000), D(n \div 100), D(n \div 10), D(n)>>

\* The lots of a tenant in a store.
LotsOf(store, tenantId) ==
  { <<k, store[k]>> : k \in { m \in DOMAIN store : store[m].tenantId = tenantId } }

\* The number the claim expects for a tenant in a store: its prefix and 1 + the trailing
\* number of the lot it created last, or 1.
ExpectedNumber(store, tenantId) ==
  LET own == { k \in DOMAIN store : store[k].tenantId = tenantId }
      last == CHOOSE k \in own : \A m \in own : m <= k
      n == IF own = {} THEN 1
           ELSE 1 + SuffixValue(store[last].lotNumber, Len(store[last].lotNumber), 1)
  IN  TenantLotPrefix(tenantId) \o Width4(n)

\* The step answers a generate-number request of slot p.
Generated(p) ==
  /\ calls' = calls
  /\ resp'[p].op = "generateLotNumber"
  /\ <<req[p], resp[p]>>' # <<req[p], resp[p]>>

MissingOrInvalid(header) ==
  \/ Len(header) < 2
  \/ ~ header[2].signed
  \/ header[2].expired
  \/ header[2].payload.role \notin {"admin", "staff"}

\* C21: no lot, transaction or dashboard handler runs without an
\* authenticated principal.  Every request a handler begins to serve, every
\* later step of a handler and every change of the lot or transaction store
\* belongs to a request whose req.user is the payload of a token that
\* verifies; a request with a missing or invalid token is answered AUTH_ERROR
\* by authenticateToken in the step it arrives, no handler is entered and no
\* state of the stores or of another request changes.
C21_AuthenticatedOnly ==
  [][ /\ \A p \in Procs :
           /\ (Began(p) /\ "header" \in DOMAIN req'[p])
                => /\ MissingOrInvalid(req'[p].header)
                   /\ pc'[p] = "idle"
                   /\ resp'[p].op = "authenticateToken"
                   /\ resp'[p].code = "AUTH_ERROR"
                   /\ resp'[p].detail =
                        <<IF Len(req'[p].header) < 2 THEN 401 ELSE 403>>
                   /\ work'[p] = NoDoc
                   /\ <<lots, nextLotId, txns, margins, stale>>'
                        = <<lots, nextLotId, txns, margins, stale>>
                   /\ \A q \in Procs \ {p} :
                        <<pc[q], req[q], work[q], resp[q]>>'
                          = <<pc[q], req[q], work[q], resp[q]>>
           /\ (Began(p) /\ "header" \notin DOMAIN req'[p])
                => req'[p].user \in GateIssued
           /\ (pc[p] # "idle" /\ pc'[p] # pc[p])
                => req[p].user \in GateIssued
      /\ (lots' # lots \/ txns' # txns)
           => \E p \in Procs :
                /\ pc[p] # "idle"
                /\ pc'[p] # pc[p]
                /\ req[p].user \in GateIssued
    ]_vars

\* A request with a forged token was answered 403 while a sale of an
\* authenticated user was in progress, and the lot it sells from is untouched.
C21_Witness ==
  \E p, q \in Procs :
    /\ resp[p] = Resp("authenticateToken", "AUTH_ERROR", <<403>>)
    /\ req[p].header = Bearer(TokForged)
    /\ pc[q] = "saleInserted"
    /\ req[q].user = Admin
    /\ lots[req[q].id].totalRevenue = 0
    /\ txns = << >>

\* Sum of one field over the lots with the ids S.
RECURSIVE SumLots(_, _)
SumLots(S, field) ==
  IF S = {} THEN 0
  ELSE LET id == CHOOSE x \in S : TRUE
       IN  lots[id][field] + SumLots(S \ {id}, field)

\* The step is taken by a query handler in slot p.
QueryStep(p) ==
  \/ /\ Began(p) \/ Generated(p)
     /\ \/ resp'[p].op \in {"getLot", "getLots", "getTransaction", "getDashboardStats",
                            "generateLotNumber"}
        \/ pc'[p] \in {"txnPopulate", "chartLots"}
  \/ pc[p] \in {"txnPopulate", "chartLots"} /\ pc'[p] # pc[p]

ReachesLoop(p) ==
  /\ Began(p)
  /\ \/ pc'[p] = "saleRead"
     \/ /\ resp'[p].op = "createSale"
        /\ \/ resp'[p].code = "INSUFFICIENT_STOCK"
           \/ /\ resp'[p].code = "VALIDATION_ERROR"
              /\ resp'[p].detail # << >>
              /\ resp'[p].detail[1] \in {"color", "size"}

\* C23: within one createSale call no line's remaining quantity is taken from
\* the working copy of the lot before every line of the request has passed
\* its color/size check and its stock check: in the run of the loop every
\* validation precedes the first decrement, and a request with a failing
\* line decrements nothing.
C23_ValidateBeforeMutate ==
  [][ \A p \in Procs :
        ReachesLoop(p)
        => LET acc == ProcessSale(FindLot(req'[p].id, req'[p].user.tenantId),
                                  req'[p].body.soldItems)
               steps == acc.steps
           IN  /\ \A a, b \in 1 .. Len(steps) :
                    (steps[a][1] = "decremented" /\ steps[b][1] = "validated") => b < a
               /\ acc.error # NoResp
                    => \A a \in 1 .. Len(steps) : steps[a][1] # "decremented" ]_vars

\* The (color, size) pairs named by the lines of a request.
PairsOf(lines) == { <<lines[k].color, lines[k].size>> : k \in 1 .. Len(lines) }

\* C24: a createSale request with several lines for the same (color, size)
\* succeeds only if the sum of the quantities of those lines is at most the
\* remaining quantity of that size; when it succeeds the stored remaining
\* quantity decreases by that sum and stays at or above zero, also when each
\* line alone is within stock.
C24_SameSizeLinesSummed ==
  [][ \A p \in Procs :
        /\ (Began(p) /\ pc'[p] = "saleRead")
             => LET lot == lots[req'[p].id]
                    lines == req'[p].body.soldItems
                IN  \A pair \in PairsOf(lines) :
                      LET i == FindColor(lot.items, pair[1])
                          j == FindSize(lot.items[i].sizes, pair[2])
                      IN  LineQty(lines, pair[1], pair[2])
                            <= lot.items[i].sizes[j].remainingQuantity
        /\ Committed(p)
             => LET id == req[p].id
                    lines == req[p].body.soldItems
                IN  \A pair \in PairsOf(lines) :
                      LET i == FindColor(lots[id].items, pair[1])
                          j == FindSize(lots[id].items[i].sizes, pair[2])
                          sum == LineQty(lines, pair[1], pair[2])
                      IN  /\ sum <= lots[id].items[i].sizes[j].remainingQuantity
                          /\ lots'[id].items[i].sizes[j].remainingQuantity =
                               lots[id].items[i].sizes[j].remainingQuantity - sum
                          /\ lots'[id].items[i].sizes[j].remainingQuantity >= 0 ]_vars

\* A request with two lines of one piece each for the same size has committed
\* against a lot that held two pieces of it, and none is left.
C24_Witness ==
  \E p \in Procs :
    /\ pc[p] = "idle"
    /\ resp[p].op = "createSale"
    /\ resp[p].code = "CREATED"
    /\ req[p].body.soldItems = SellTwice
    /\ req[p].id \in DOMAIN lots
    /\ Len(txns) = 1
    /\ lots[req[p].id].items[1].sizes[1].quantity = 2
    /\ lots[req[p].id].items[1].sizes[1].remainingQuantity = 0

\* The step removes lot id from the store.
Deletes(id) == id \in DOMAIN lots /\ id \notin DOMAIN lots'

\* C25: a deleteLot and a createSale of the same lot take effect in one of
\* the two serial orders.  A sale commits only while its lot exists, and the
\* commit leaves the lot in place with the transaction added; a lot is never
\* removed while a sale holds a pending write to it, and a sale that had read
\* the lot before it was removed fails at its next step with SERVER_ERROR,
\* creating no transaction and changing no lot; a removed lot never comes
\* back: only the insert of a createLot adds a lot, under an id never used.
C25_DeleteSaleSerial ==
  [][ /\ \A p \in Procs :
           Committed(p)
           => /\ req[p].id \in DOMAIN lots
              /\ req[p].id \in DOMAIN lots'
              /\ txns'[Len(txns')].lotId = req[p].id
              /\ Len(txns') = Len(txns) + 1
      /\ \A id \in DOMAIN lots :
           Deletes(id)
           => /\ \E p \in Procs :
                   /\ pc[p] = "deleteDo"
                   /\ req[p].id = id
                   /\ resp'[p] = Resp("deleteLot", "OK", << >>)
              /\ txns' = txns
              /\ \A q \in Procs :
                   (pc[q] \in {"saleRead", "saleSaved", "saleInserted"} /\ req[q].id = id)
                   => /\ pc[q] = "saleRead"
                      /\ stale'[q]
      /\ \A q \in Procs :
           (SaleStep(q) /\ req[q].id \notin DOMAIN lots)
           => /\ pc'[q] = "idle"
              /\ resp'[q] = Resp("createSale", "SERVER_ERROR", << >>)
              /\ txns' = txns
              /\ lots' = lots
      /\ \A id \in DOMAIN lots' :
           id \notin DOMAIN lots
           => /\ id = nextLotId
              /\ nextLotId' = nextLotId + 1
              /\ \E p \in Procs : pc[p] = "createInsert" /\ pc'[p] = "idle"
      /\ nextLotId' >= nextLotId
      /\ \A id \in DOMAIN lots : id < nextLotId
    ]_vars

\* A deleteLot has removed the lot a createSale in progress had read: the
\* sale is still before its save, its snapshot is out of date, and no
\* transaction exists.
C25_Witness ==
  \E p, q \in Procs :
    /\ pc[p] = "saleRead"
    /\ stale[p]
    /\ req[p].id \notin DOMAIN lots
    /\ req[p].id < nextLotId
    /\ pc[q] = "idle"
    /\ resp[q] = Resp("deleteLot", "OK", << >>)
    /\ req[q].id = req[p].id
    /\ txns = << >>

\* C26: a successful createSale on lot L changes only the remainingQuantity
\* of the sizes its lines name and L's totalRevenue and totalProfit.  The
\* commit leaves L's lotNumber, createdBy, tenant, totalInvestment, version
\* and creation time, the number and colors of its items, every size's name,
\* quantity, purchaseCostPerPiece and sellCostPerPiece, the remainingQuantity
\* of every size no line names, and every other lot as they were; no other
\* step of the call changes a lot.
C26_SaleFrame ==
  [][ \A p \in Procs :
        /\ Committed(p)
             => LET id == req[p].id
                    old == lots[id]
                    new == lots'[id]
                    named == PairsOf(req[p].body.soldItems)
                IN  /\ DOMAIN lots' = DOMAIN lots
                    /\ \A k \in DOMAIN lots \ {id} : lots'[k] = lots[k]
                    /\ new.lotNumber = old.lotNumber
                    /\ new.createdBy = old.createdBy
                    /\ new.tenantId = old.tenantId
                    /\ new.totalInvestment = old.totalInvestment
                    /\ new.v = old.v
                    /\ new.createdAt = old.createdAt
                    /\ Len(new.items) = Len(old.items)
                    /\ \A i \in 1 .. Len(old.items) :
                         /\ new.items[i].color = old.items[i].color
                         /\ Len(new.items[i].sizes) = Len(old.items[i].sizes)
                         /\ \A j \in 1 .. Len(old.items[i].sizes) :
                              LET a == old.items[i].sizes[j]
                                  b == new.items[i].sizes[j]
                              IN  /\ b.size = a.size
                                  /\ b.quantity = a.quantity
                                  /\ b.purchaseCostPerPiece = a.purchaseCostPerPiece
                                  /\ b.sellCostPerPiece = a.sellCostPerPiece
                                  /\ <<old.items[i].color, a.size>> \notin named
                                       => b.remainingQuantity = a.remainingQuantity
        /\ (SaleStep(p) /\ ~ Committed(p)) => lots' = lots
        /\ (Began(p) /\ (pc'[p] = "saleRead" \/ resp'[p].op = "createSale"))
             => lots' = lots ]_vars

\* Both red pieces of size M of the two-color lot were sold: its blue sizes
\* hold their full stock, its quantities and investment are as created, and
\* the other lot of the tenant and the lot of tenant B are untouched.
C26_Witness ==
  \E p \in Procs :
    /\ pc[p] = "idle"
    /\ resp[p].op = "createSale"
    /\ resp[p].code = "CREATED"
    /\ req[p].id = 2
    /\ DOMAIN lots = {1, 2, 3}
    /\ lots[2].items[1].sizes[1].remainingQuantity = 0
    /\ lots[2].items[1].sizes[1].quantity = 2
    /\ lots[2].items[2].sizes = SeedItems(Shape3)[2].sizes
    /\ lots[2].totalInvestment = Investment(Shape3)
    /\ lots[2].totalRevenue = 6
    /\ lots[1].items = SeedItems(Shape1)
    /\ lots[1].totalRevenue = 0
    /\ lots[3].items = SeedItems(Shape1)
    /\ lots[3].totalRevenue = 0

\* The request slot p takes a step of updateLot.
UpdateStep(p) ==
  \/ Began(p) /\ (pc'[p] \in {"updateDup", "updateSave"} \/ resp'[p].op = "updateLot")
  \/ pc[p] \in {"updateDup", "updateSave"} /\ pc'[p] # pc[p]

\* C27: updateLot never changes a lot's totalRevenue, totalProfit or createdBy
\* and never changes a transaction.  Its save keeps the totals the store holds
\* at that moment, also when a sale of the lot has committed after the update
\* read the lot, so the lot still carries the revenue and the margin of every
\* committed sale; no step of updateLot touches another lot or the
\* transactions.
C27_UpdateKeepsTotals ==
  [][ \A p \in Procs :
        UpdateStep(p)
        => /\ txns' = txns
           /\ margins' = margins
           /\ DOMAIN lots' = DOMAIN lots
           /\ \A id \in DOMAIN lots :
                /\ lots'[id].totalRevenue = lots[id].totalRevenue
                /\ lots'[id].totalProfit = lots[id].totalProfit
                /\ lots'[id].createdBy = lots[id].createdBy
                /\ lots'[id].tenantId = lots[id].tenantId
                /\ lots'[id].totalRevenue =
                     SumOver([k \in 1 .. Len(txns) |-> txns[k].totalRevenue], Len(txns), id)
                /\ lots'[id].totalProfit = SumOver(margins, Len(txns), id)
                /\ id # req'[p].id => lots'[id] = lots[id] ]_vars

\* An updateLot has read the lot and has not yet saved it, and a sale of the
\* lot has committed since: the document the update holds shows no revenue,
\* the stored lot shows the revenue of the sale.
C27_Witness ==
  \E p \in Procs :
    /\ pc[p] = "updateSave"
    /\ req[p].id \in DOMAIN lots
    /\ work[p].totalRevenue = 0
    /\ TxnsOf(req[p].id) # {}
    /\ lots[req[p].id].totalRevenue = 3
    /\ lots[req[p].id].totalProfit = 2

\* The request held by slot p came through POST /api/lots/:id/sell.
ViaSellRoute(r) == "params" \in DOMAIN r

\* C28: a sale submitted through POST /api/lots/:id/sell reads, validates and
\* changes only the lot named by the :id path parameter, and the transaction
\* it creates carries that :id as lotId, whatever lotId the body carries.
C28_SellUsesPathId ==
  [][ \A p \in Procs :
        /\ (Began(p) /\ ViaSellRoute(req'[p]))
             => /\ req'[p].id = req'[p].params.id
                /\ pc'[p] = "saleRead"
                     => work'[p].doc.lotNumber = lots[req'[p].params.id].lotNumber
        /\ (Committed(p) /\ ViaSellRoute(req[p]))
             => /\ txns'[Len(txns')].lotId = req[p].params.id
                /\ \A k \in DOMAIN lots \ {req[p].params.id} : lots'[k] = lots[k] ]_vars

\* The transactions of a tenant created on day d.
SalesOn(tenantId, d) ==
  { k \in 1 .. Len(txns) : txns[k].tenantId = tenantId /\ DateOf(txns[k].createdAt) = d }

\* Sum of f[k] over the indices S.
RECURSIVE SumAt(_, _)
SumAt(f, S) ==
  IF S = {} THEN 0
  ELSE LET k == CHOOSE x \in S : TRUE IN f[k] + SumAt(f, S \ {k})

\* C29: in the revenueTrend series of the chart data, for every day D of the
\* trailing 30-day window that has a sale, the entry for D carries as revenue
\* the sum of totalRevenue of the tenant's transactions created on day D and
\* as profit the sum of the margins of the sales made on day D.  Stated for
\* the answers whose two queries saw the same transactions.
C29_RevenueTrendPerDay ==
  [][ \A p \in Procs :
        ( /\ pc[p] = "chartLots"
          /\ resp'[p].op = "getChartData"
          /\ work[p].transactions = FindRecentTransactions(req[p].user.tenantId) )
        => LET tenantId == req[p].user.tenantId
               trend == resp'[p].detail[1].revenueTrend
               days == { DateOf(work[p].transactions[k].createdAt) :
                           k \in 1 .. Len(work[p].transactions) }
           IN  \A d \in days :
                 \E e \in 1 .. Len(trend) :
                   /\ trend[e].date = d
                   /\ trend[e].revenue =
                        SumAt([k \in 1 .. Len(txns) |-> txns[k].totalRevenue],
                              SalesOn(tenantId, d))
                   /\ trend[e].profit = SumAt(margins, SalesOn(tenantId, d)) ]_vars

\* The step ends a createSale invocation of slot p.
SaleEnds(p) ==
  \/ Began(p) /\ pc'[p] = "idle" /\ session'[p] # << >>
  \/ SaleStep(p) /\ pc'[p] = "idle"

\* The calls of a session log that finished its transaction.
Finishing(log) ==
  SelectSeq(log, LAMBDA c : c \in {"commitTransaction", "abortTransaction"})

\* C30: every createSale invocation ends with exactly one response, whose
\* outcome is a transaction (CREATED) or one of NOT_FOUND, VALIDATION_ERROR,
\* INSUFFICIENT_STOCK, SERVER_ERROR, and on every path (early validation
\* returns, failure of the lot save, of the transaction insert or of the
\* commit) its database transaction is started once, finished exactly once,
\* committed when the outcome is CREATED and aborted otherwise, and its
\* session is ended last.
C30_OneResponseOneFinish ==
  [][ \A p \in Procs :
        SaleEnds(p)
        => /\ resp'[p].op = "createSale"
           /\ resp'[p].code \in {"CREATED", "NOT_FOUND", "VALIDATION_ERROR",
                                 "INSUFFICIENT_STOCK", "SERVER_ERROR"}
           /\ Head(session'[p]) = "startTransaction"
           /\ session'[p][Len(session'[p])] = "endSession"
           /\ Len(SelectSeq(session'[p], LAMBDA c : c = "startTransaction")) = 1
           /\ Len(SelectSeq(session'[p], LAMBDA c : c = "endSession")) = 1
           /\ Finishing(session'[p]) =
                IF resp'[p].code = "CREATED" THEN <<"commitTransaction">>
                ELSE <<"abortTransaction">> ]_vars
====
